---- MODULE Spec2Model ----
(***************************************************************************)
(* OpenTimestamps client: the proof-file codec (src/ots), the upgrade walk *)
(* (src/commands/upgrade.rs) and the commands that drive them.             *)
(*                                                                         *)
(* Bytes are the integers 0..255.  A usize is the set of the positions of  *)
(* its one bits (a subset of 0..WordBits-1), so that the 64-bit word keeps *)
(* its width.  A Rust String is the sequence of its Unicode scalar values. *)
(***************************************************************************)
EXTENDS Integers, Sequences, FiniteSets, TLC

VARIABLES
    disk,           \* the bytes of the proof file on disk
    build,          \* "debug" | "release": whether overflow checks are compiled in
    calendar,       \* the calendar servers: (uri, commitment) -> HTTP outcome, fixed once asked
    pc,             \* position of the running command
    ots,            \* the DetachedTimestampFile held in memory (NoFile before a load)
    err,            \* the error the last operation returned (NoError if none)
    written,        \* the bytes to_writer produced into a buffer
    readback,       \* what from_reader returned for the written buffer
    todo,           \* upgrade walk: the calls of upgrade_step still to run (paths)
    upgraded,       \* upgrade walk: the flag upgrade_step accumulates
    requests,       \* the get_timestamp requests of the current walk, in order
    new_timestamp,  \* the last value parse_calendar_response returned
    before,         \* the first step as it was when the current walk began
    replaced,       \* the paths of the leaves the current walk replaced
    walks,          \* the first steps the finished walks left, in order
    verdict,        \* verify: what execute did and returned (NoVerdict before)
    job,            \* codec: the call under way, [ op, arg ]
    cpc,            \* codec: how far the call under way has got
    wire,           \* codec: the bytes written, the stream read
    rpos,           \* codec: the index of the next unread byte of wire
    out,            \* codec: what the call returned
    spc,            \* stamp: position of the stamp command
    stamp,          \* stamp: the arguments and locals of execute for the file
    urls,           \* stamp: the list submit_to_calendars goes through
    contacted,      \* stamp: the submit calls made so far, in order, with their results
    last_error,     \* stamp: the error submit_to_calendars remembers
    submitted,      \* stamp: what submit_to_calendars returned
    stamped,        \* stamp: what execute returned, with the file it saved
    dry_run,        \* upgrade: the dry_run argument of execute
    bak             \* upgrade: the file <file>.bak, [ exists, bytes ]

fileVars == << disk, build, calendar, pc, ots, err, written, readback, todo,
               upgraded, requests, new_timestamp, before, replaced, walks >>
codecVars == << job, cpc, wire, rpos, out >>

stampVars == << spc, stamp, urls, contacted, last_error, submitted, stamped >>

saveVars == << dry_run, bak >>

vars == << fileVars, verdict, codecVars, stampVars, saveVars >>

----------------------------------------------------------------------------
(* Program constants *)

WordBits == 64
RECURSION_LIMIT == 256
MAX_URI_LEN == 1000
MAX_OP_LENGTH == 4096
TAG_SIZE == 8
VERSION == 1

MAGIC == << 0, 79, 112, 101, 110, 84, 105, 109, 101, 115, 116, 97, 109, 112,
            115, 0, 0, 80, 114, 111, 111, 102, 0, 191, 137, 226, 232, 132,
            232, 146, 148 >>
BITCOIN_TAG == << 5, 136, 150, 13, 115, 215, 25, 1 >>
PENDING_TAG == << 131, 223, 227, 13, 46, 249, 12, 142 >>

----------------------------------------------------------------------------
(* usize arithmetic on the set-of-one-bits representation *)

\* 2^k for k in 0..30
Pow2(k) ==
    << 1, 2, 4, 8, 16, 32, 64, 128, 256, 512, 1024, 2048, 4096, 8192,
       16384, 32768, 65536, 131072, 262144, 524288, 1048576, 2097152,
       4194304, 8388608, 16777216, 33554432, 67108864, 134217728,
       268435456, 536870912, 1073741824 >>[k + 1]

\* The bits of a natural number below 2^31.
FromNat(n) == { i \in 0..30 : (n \div Pow2(i)) % 2 = 1 }

\* A usize that fits the integers of the checker.
IsSmall(u) == \A b \in u : b < 31

RECURSIVE ToNat(_)
ToNat(u) ==
    IF u = {} THEN 0
    ELSE LET b == CHOOSE x \in u : \A y \in u : y <= x
         IN  Pow2(b) + ToNat(u \ {b})

ULt(u, c) == IsSmall(u) /\ ToNat(u) < c
UGt(u, c) == ~IsSmall(u) \/ ToNat(u) > c

\* u >> k
Shr(u, k) == { b - k : b \in { x \in u : x >= k } }

\* (x as usize) << k for a small x: bits shifted past the word are lost
Shl(x, k) == { b + k : b \in { y \in FromNat(x) : y + k < WordBits } }

\* n as u8
AsU8(u) == ToNat({ b \in u : b < 8 })

\* n as u32
AsU32(u) == { b \in u : b < 32 }

----------------------------------------------------------------------------
(* Results *)

Ok(v, p) == [ ok |-> TRUE, val |-> v, pos |-> p ]
Err(e) == [ ok |-> FALSE, err |-> e ]
IoError == [ kind |-> "Io" ]
\* The process aborts: a Rust panic (an overflow check, a capacity overflow).
Panic == [ kind |-> "Panic" ]

\* The ? operator: an Err is returned at once, an Ok value goes on into K
\* together with the position the reader has reached.
Try(r, K(_, _)) == IF r.ok THEN K(r.val, r.pos) ELSE r

----------------------------------------------------------------------------
(* Deserializer (src/ots/ser.rs).  s is the stream, p the index of the     *)
(* next unread byte.                                                       *)

read_byte(s, p) ==
    IF p > Len(s) THEN Err(IoError) ELSE Ok(s[p], p + 1)

\* vec![0; n] then read_exact: a length above isize::MAX panics in the
\* allocation; a stream shorter than n ends in UnexpectedEof.
read_fixed_bytes(s, p, n) ==
    IF (WordBits - 1) \in n THEN Err(Panic)
    ELSE IF ~IsSmall(n) THEN Err(IoError)
    ELSE LET k == ToNat(n)
         IN  IF p + k - 1 > Len(s) THEN Err(IoError)
             ELSE Ok(SubSeq(s, p, p + k - 1), p + k)

RECURSIVE read_uint_loop(_, _, _, _)
read_uint_loop(s, p, ret, shift) ==
    Try(read_byte(s, p), LAMBDA byte, q :
        IF shift >= WordBits /\ build = "debug" THEN Err(Panic)
        ELSE IF byte < 128 THEN Ok(ret \cup Shl(byte % 128, shift % WordBits), q)
        ELSE read_uint_loop(s, q, ret \cup Shl(byte % 128, shift % WordBits), shift + 7))

read_uint(s, p) == read_uint_loop(s, p, {}, 0)

read_bytes_exclusive(s, p, min, max) ==
    Try(read_uint(s, p), LAMBDA n, q :
        IF ULt(n, min + 1) \/ UGt(n, max)
        THEN Err([ kind |-> "BadLength", min |-> min, max |-> max, val |-> n ])
        ELSE read_fixed_bytes(s, q, n))

read_bytes(s, p, min, max) ==
    Try(read_uint(s, p), LAMBDA n, q :
        IF ULt(n, min) \/ UGt(n, max)
        THEN Err([ kind |-> "BadLength", min |-> min, max |-> max, val |-> n ])
        ELSE read_fixed_bytes(s, q, n))

read_magic(s, p) ==
    Try(read_fixed_bytes(s, p, FromNat(Len(MAGIC))), LAMBDA recv_magic, q :
        IF recv_magic = MAGIC THEN Ok(TRUE, q)
        ELSE Err([ kind |-> "BadMagic", got |-> recv_magic ]))

read_version(s, p) ==
    Try(read_uint(s, p), LAMBDA recv_version, q :
        IF recv_version = FromNat(VERSION) THEN Ok(TRUE, q)
        ELSE Err([ kind |-> "BadVersion", val |-> recv_version ]))

\* check_eof that never looks at the stream
check_eof_unchecked(s, p) == Ok(TRUE, p)

check_eof(s, p) ==
    IF p > Len(s) THEN Ok(TRUE, p) ELSE Err([ kind |-> "TrailingBytes" ])

----------------------------------------------------------------------------
(* Serializer (src/ots/ser.rs): each writer returns the bytes it appends. *)

write_byte(b) == << b >>

RECURSIVE write_uint_loop(_)
write_uint_loop_early(n) ==
    IF n = {} THEN << >>
    ELSE ( IF \E b \in n : b >= 6
           THEN write_byte(ToNat({ b \in n : b < 7 }) + 128)
           ELSE write_byte(AsU8(n)) )
         \o write_uint_loop(Shr(n, 7))

write_uint_loop(n) ==
    IF n = {} THEN << >>
    ELSE ( IF \E b \in n : b >= 7
           THEN write_byte(ToNat({ b \in n : b < 7 }) + 128)
           ELSE write_byte(AsU8(n)) )
         \o write_uint_loop(Shr(n, 7))

write_uint(n) == IF n = {} THEN write_byte(0) ELSE write_uint_loop(n)

write_fixed_bytes(data) == data

write_bytes(data) == write_uint(FromNat(Len(data))) \o write_fixed_bytes(data)

write_magic == write_fixed_bytes(MAGIC)

write_version == write_uint(FromNat(VERSION))

----------------------------------------------------------------------------
(* DigestType (src/ots/digest.rs) *)

from_tag(t) ==
    IF t = 2 THEN Ok("Sha1", 0)
    ELSE IF t = 3 THEN Ok("Ripemd160", 0)
    ELSE IF t = 8 THEN Ok("Sha256", 0)
    ELSE Err([ kind |-> "BadDigestTag", tag |-> t ])

to_tag(digest_type) ==
    CASE digest_type = "Sha1" -> 2
      [] digest_type = "Ripemd160" -> 3
      [] digest_type = "Sha256" -> 8

digest_len(digest_type) ==
    IF digest_type \in { "Sha1", "Ripemd160" } THEN 20 ELSE 32

----------------------------------------------------------------------------
(* Op (src/ots/op.rs) *)

Sha1 == [ name |-> "Sha1", data |-> << >> ]
Sha256 == [ name |-> "Sha256", data |-> << >> ]
Ripemd160 == [ name |-> "Ripemd160", data |-> << >> ]
Hexlify == [ name |-> "Hexlify", data |-> << >> ]
Reverse == [ name |-> "Reverse", data |-> << >> ]
OpAppend(data) == [ name |-> "Append", data |-> data ]
OpPrepend(data) == [ name |-> "Prepend", data |-> data ]

op_tag(op) ==
    CASE op.name = "Sha1" -> 2
      [] op.name = "Sha256" -> 8
      [] op.name = "Ripemd160" -> 3
      [] op.name = "Hexlify" -> 243
      [] op.name = "Reverse" -> 242
      [] op.name = "Append" -> 240
      [] op.name = "Prepend" -> 241

\* The sum of the bytes modulo 256, by halves.
RECURSIVE SumBytes(_)
SumBytes(s) ==
    IF Len(s) = 0 THEN 0
    ELSE IF Len(s) = 1 THEN s[1]
    ELSE (SumBytes(SubSeq(s, 1, Len(s) \div 2))
            + SumBytes(SubSeq(s, (Len(s) \div 2) + 1, Len(s)))) % 256

\* The hash functions are external (bitcoin_hashes): each is modelled as a
\* fixed deterministic function of the whole input with the digest's length.
HashBytes(seed, n) == [ i \in 1..n |-> (seed + (13 * i)) % 256 ]

HashModel(salt, n, input) ==
    HashBytes(SumBytes(input) + (7 * Len(input)) + salt, n)

HexDigit(d) == IF d < 10 THEN 48 + d ELSE 87 + d

\* Two lowercase hex digits per byte, the high nibble first.
hex_encode(s) ==
    [ i \in 1..(2 * Len(s)) |->
        IF i % 2 = 1 THEN HexDigit(s[(i + 1) \div 2] \div 16)
        ELSE HexDigit(s[i \div 2] % 16) ]

rev(s) == [ i \in 1..Len(s) |-> s[Len(s) + 1 - i] ]

execute(op, input) ==
    CASE op.name = "Sha1" -> HashModel(1, 20, input)
      [] op.name = "Sha256" -> HashModel(2, 32, input)
      [] op.name = "Ripemd160" -> HashModel(3, 20, input)
      [] op.name = "Hexlify" -> hex_encode(input)
      [] op.name = "Reverse" -> rev(input)
      [] op.name = "Append" -> input \o op.data
      [] op.name = "Prepend" -> op.data \o input

deserialize_with_tag(s, p, t) ==
    CASE t = 2 -> Ok(Sha1, p)
      [] t = 8 -> Ok(Sha256, p)
      [] t = 3 -> Ok(Ripemd160, p)
      [] t = 243 -> Ok(Hexlify, p)
      [] t = 242 -> Ok(Reverse, p)
      [] t \in { 240, 241 } ->
            Try(read_bytes(s, p, 1, MAX_OP_LENGTH), LAMBDA data, q :
                Ok(IF t = 240 THEN OpAppend(data) ELSE OpPrepend(data), q))
      [] OTHER -> Err([ kind |-> "BadOpTag", tag |-> t ])

op_deserialize(s, p) ==
    Try(read_byte(s, p), LAMBDA t, q : deserialize_with_tag(s, q, t))

op_serialize(op) ==
    write_byte(op_tag(op))
      \o (IF op.name = "Append" THEN write_bytes(op.data) ELSE << >>)
      \o (IF op.name = "Prepend" THEN write_bytes(op.data) ELSE << >>)

----------------------------------------------------------------------------
(* Attestation (src/ots/attestation.rs) *)

Bitcoin(height) == [ type |-> "Bitcoin", height |-> height ]
Pending(uri) == [ type |-> "Pending", uri |-> uri ]
Unknown(t, data) == [ type |-> "Unknown", tag |-> t, data |-> data ]

Cont(b) == b >= 128 /\ b <= 191

\* One scalar value at b[i]: [n |-> bytes taken, c |-> the value], n = 0 if
\* the bytes there are not valid UTF-8 (String::from_utf8's validation).
Utf8At(b, i) ==
    LET at(k) == IF i + k <= Len(b) THEN b[i + k] ELSE 0
        b0 == at(0)
        b1 == at(1)
        b2 == at(2)
        b3 == at(3)
        bad == [ n |-> 0, c |-> 0 ]
    IN  IF b0 < 128 THEN [ n |-> 1, c |-> b0 ]
        ELSE IF b0 >= 194 /\ b0 <= 223
             THEN IF Cont(b1) THEN [ n |-> 2, c |-> ((b0 - 192) * 64) + (b1 - 128) ]
                  ELSE bad
        ELSE IF b0 >= 224 /\ b0 <= 239
             THEN IF /\ Cont(b1) /\ Cont(b2)
                     /\ (b0 = 224 => b1 >= 160)
                     /\ (b0 = 237 => b1 <= 159)
                  THEN [ n |-> 3,
                         c |-> ((b0 - 224) * 4096) + ((b1 - 128) * 64) + (b2 - 128) ]
                  ELSE bad
        ELSE IF b0 >= 240 /\ b0 <= 244
             THEN IF /\ Cont(b1) /\ Cont(b2) /\ Cont(b3)
                     /\ (b0 = 240 => b1 >= 144)
                     /\ (b0 = 244 => b1 <= 143)
                  THEN [ n |-> 4,
                         c |-> ((b0 - 240) * 262144) + ((b1 - 128) * 4096)
                                 + ((b2 - 128) * 64) + (b3 - 128) ]
                  ELSE bad
        ELSE bad

\* String::from_utf8: the bytes are valid if each byte that is not a
\* continuation byte starts a well-formed scalar value and the byte after that
\* value is not a continuation byte; the string is the values in order.
from_utf8(b) ==
    IF /\ Len(b) > 0 => ~Cont(b[1])
       /\ \A i \in 1..Len(b) :
             ~Cont(b[i]) =>
                 /\ Utf8At(b, i).n # 0
                 /\ (i + Utf8At(b, i).n <= Len(b)) => ~Cont(b[i + Utf8At(b, i).n])
    THEN Ok(SelectSeq([ i \in 1..Len(b) |->
                          IF Cont(b[i]) THEN -1 ELSE Utf8At(b, i).c ],
                      LAMBDA c : c >= 0),
            Len(b) + 1)
    ELSE Err([ kind |-> "Utf8" ])

\* One scalar value in UTF-8.
encode_utf8(c) ==
    IF c < 128 THEN << c >>
    ELSE IF c < 2048 THEN << 192 + (c \div 64), 128 + (c % 64) >>
    ELSE IF c < 65536
    THEN << 224 + (c \div 4096), 128 + ((c \div 64) % 64), 128 + (c % 64) >>
    ELSE << 240 + (c \div 262144), 128 + ((c \div 4096) % 64),
            128 + ((c \div 64) % 64), 128 + (c % 64) >>

\* String::as_bytes: the UTF-8 encoding of the scalar values, by halves.
RECURSIVE as_bytes(_)
as_bytes(str) ==
    IF Len(str) = 0 THEN << >>
    ELSE IF Len(str) = 1 THEN encode_utf8(str[1])
    ELSE as_bytes(SubSeq(str, 1, Len(str) \div 2))
           \o as_bytes(SubSeq(str, (Len(str) \div 2) + 1, Len(str)))

\* 'a'..='z' | 'A'..='Z' | '0'..='9' | '.' | '-' | '_' | '/' | ':'
UriCharOk(ch) ==
    \/ ch >= 97 /\ ch <= 122
    \/ ch >= 65 /\ ch <= 90
    \/ ch >= 48 /\ ch <= 57
    \/ ch \in { 46, 45, 95, 47, 58 }

\* The index of the first character from i on outside the allowed set, 0 if
\* none.
first_bad_char(str, i) ==
    IF \A k \in i..Len(str) : UriCharOk(str[k]) THEN 0
    ELSE CHOOSE k \in i..Len(str) :
             /\ ~UriCharOk(str[k])
             /\ \A j \in i..(k - 1) : UriCharOk(str[j])

check_uri_last(uri_string, q) ==
    IF first_bad_char(uri_string, 1) # 0
    THEN Err([ kind |-> "InvalidUriChar",
               ch |-> uri_string[CHOOSE k \in 1..Len(uri_string) :
                                    /\ ~UriCharOk(uri_string[k])
                                    /\ first_bad_char(uri_string, k + 1) = 0] ])
    ELSE Ok(Pending(uri_string), q)

check_uri(uri_string, q) ==
    IF first_bad_char(uri_string, 1) # 0
    THEN Err([ kind |-> "InvalidUriChar",
               ch |-> uri_string[first_bad_char(uri_string, 1)] ])
    ELSE Ok(Pending(uri_string), q)

\* Attestation::deserialize taking the outer length as the end of a Bitcoin
\* or Pending attestation
attestation_deserialize_outer(s, p) ==
    Try(read_fixed_bytes(s, p, FromNat(TAG_SIZE)), LAMBDA t, q1 :
    Try(read_uint(s, q1), LAMBDA len, q2 :
        IF t = BITCOIN_TAG
        THEN Try(read_uint(s, q2), LAMBDA height, q3 :
                 Ok(Bitcoin(height), q2 + ToNat(len)))
        ELSE IF t = PENDING_TAG
        THEN Try(read_bytes(s, q2, 0, MAX_URI_LEN), LAMBDA uri_bytes, q3 :
             Try(from_utf8(uri_bytes), LAMBDA uri_string, q4 :
                 check_uri(uri_string, q2 + ToNat(len))))
        ELSE Try(read_fixed_bytes(s, q2, len), LAMBDA data, q3 :
                 Ok(Unknown(t, data), q3))))

attestation_deserialize(s, p) ==
    Try(read_fixed_bytes(s, p, FromNat(TAG_SIZE)), LAMBDA t, q1 :
    Try(read_uint(s, q1), LAMBDA len, q2 :
        IF t = BITCOIN_TAG
        THEN Try(read_uint(s, q2), LAMBDA height, q3 : Ok(Bitcoin(height), q3))
        ELSE IF t = PENDING_TAG
        THEN Try(read_bytes(s, q2, 0, MAX_URI_LEN), LAMBDA uri_bytes, q3 :
             Try(from_utf8(uri_bytes), LAMBDA uri_string, q4 :
                 check_uri(uri_string, q3)))
        ELSE Try(read_fixed_bytes(s, q2, len), LAMBDA data, q3 :
                 Ok(Unknown(t, data), q3))))

attestation_serialize_flat(attest) ==
    CASE attest.type = "Bitcoin" ->
            write_fixed_bytes(BITCOIN_TAG) \o write_bytes(write_uint(attest.height))
      [] attest.type = "Pending" ->
            write_fixed_bytes(PENDING_TAG) \o write_bytes(as_bytes(attest.uri))
      [] attest.type = "Unknown" ->
            write_fixed_bytes(attest.tag) \o write_bytes(attest.data)

attestation_serialize(attest) ==
    CASE attest.type = "Bitcoin" ->
            write_fixed_bytes(BITCOIN_TAG) \o write_bytes(write_uint(attest.height))
      [] attest.type = "Pending" ->
            write_fixed_bytes(PENDING_TAG) \o write_bytes(write_bytes(as_bytes(attest.uri)))
      [] attest.type = "Unknown" ->
            write_fixed_bytes(attest.tag) \o write_bytes(attest.data)

----------------------------------------------------------------------------
(* Step and Timestamp (src/ots/timestamp.rs) *)

Fork == [ kind |-> "Fork" ]
OpData(op) == [ kind |-> "Op", op |-> op ]
AttestationData(attest) == [ kind |-> "Attestation", attest |-> attest ]

Step(data, output, next) == [ data |-> data, output |-> output, next |-> next ]

\* Option<u8>::None for the tag argument
NoTag == -1

RECURSIVE deserialize_step_recurse(_, _, _, _, _)
RECURSIVE deserialize_fork(_, _, _, _, _, _)

\* The Fork arm pushing each child at the front of forks
deserialize_fork_front(s, p, input_digest, recursion_limit, forks, next_tag) ==
    IF next_tag = 255
    THEN Try(deserialize_step_recurse(s, p, input_digest, NoTag, recursion_limit - 1),
             LAMBDA child, q1 :
         Try(read_byte(s, q1), LAMBDA t, q2 :
             deserialize_fork(s, q2, input_digest, recursion_limit,
                              << child >> \o forks, t)))
    ELSE Try(deserialize_step_recurse(s, p, input_digest, next_tag, recursion_limit - 1),
             LAMBDA final, q1 :
             Ok(Step(Fork, input_digest, << final >> \o forks), q1))

\* The Fork arm reading a fresh tag for the final child
deserialize_fork_dropped(s, p, input_digest, recursion_limit, forks, next_tag) ==
    IF next_tag = 255
    THEN Try(deserialize_step_recurse(s, p, input_digest, NoTag, recursion_limit - 1),
             LAMBDA child, q1 :
         Try(read_byte(s, q1), LAMBDA t, q2 :
             deserialize_fork(s, q2, input_digest, recursion_limit,
                              forks \o << child >>, t)))
    ELSE Try(deserialize_step_recurse(s, p, input_digest, NoTag, recursion_limit - 1),
             LAMBDA final, q1 :
             Ok(Step(Fork, input_digest, forks \o << final >>), q1))

\* The Fork arm from the head of its while loop on: forks and next_tag are
\* the loop's variables.
deserialize_fork(s, p, input_digest, recursion_limit, forks, next_tag) ==
    IF next_tag = 255
    THEN Try(deserialize_step_recurse(s, p, input_digest, NoTag, recursion_limit - 1),
             LAMBDA child, q1 :
         Try(read_byte(s, q1), LAMBDA t, q2 :
             deserialize_fork(s, q2, input_digest, recursion_limit,
                              forks \o << child >>, t)))
    ELSE Try(deserialize_step_recurse(s, p, input_digest, next_tag, recursion_limit - 1),
             LAMBDA final, q1 :
             Ok(Step(Fork, input_digest, forks \o << final >>), q1))

\* The op arm storing its input as the output
deserialize_op_unexecuted(s, p, input_digest, op, recursion_limit) ==
    Try(deserialize_step_recurse(s, p, execute(op, input_digest), NoTag,
                                 recursion_limit - 1),
        LAMBDA next, q :
        Ok(Step(OpData(op), input_digest, << next >>), q))

\* The op arm recursing without taking one from the budget
deserialize_op_uncounted(s, p, input_digest, op, recursion_limit) ==
    Try(deserialize_step_recurse(s, p, execute(op, input_digest), NoTag,
                                 recursion_limit),
        LAMBDA next, q :
        Ok(Step(OpData(op), execute(op, input_digest), << next >>), q))

\* The arm of match tag for an op tag.
deserialize_op(s, p, input_digest, op, recursion_limit) ==
    Try(deserialize_step_recurse(s, p, execute(op, input_digest), NoTag,
                                 recursion_limit - 1),
        LAMBDA next, q :
        Ok(Step(OpData(op), execute(op, input_digest), << next >>), q))

deserialize_step_recurse(s, p, input_digest, tag_arg, recursion_limit) ==
    IF recursion_limit = 0 THEN Err([ kind |-> "StackOverflow" ])
    ELSE Try(IF tag_arg # NoTag THEN Ok(tag_arg, p) ELSE read_byte(s, p),
             LAMBDA t, q1 :
             IF t = 0
             THEN Try(attestation_deserialize(s, q1), LAMBDA attest, q2 :
                      Ok(Step(AttestationData(attest), input_digest, << >>), q2))
             ELSE IF t = 255
             THEN deserialize_fork(s, q1, input_digest, recursion_limit, << >>, 255)
             ELSE Try(deserialize_with_tag(s, q1, t), LAMBDA op, q2 :
                      deserialize_op(s, q2, input_digest, op, recursion_limit)))

Timestamp(start_digest, first_step) ==
    [ start_digest |-> start_digest, first_step |-> first_step ]

deserialize(s, p, digest) ==
    Try(deserialize_step_recurse(s, p, digest, NoTag, RECURSION_LIMIT),
        LAMBDA first_step, q : Ok(Timestamp(digest, first_step), q))

\* A writer's result: the bytes written, and ok = FALSE if it panicked
\* after writing them.
Wrote(bytes) == [ ok |-> TRUE, bytes |-> bytes ]
Aborted(bytes) == [ ok |-> FALSE, bytes |-> bytes ]
Then(a, b) == IF ~a.ok THEN a ELSE [ ok |-> b.ok, bytes |-> a.bytes \o b.bytes ]

RECURSIVE serialize_step_recurse(_)
RECURSIVE serialize_fork(_, _)

\* The loop writing the first child at every turn
serialize_fork_first(step, i) ==
    IF i > Len(step.next) - 1 THEN Wrote(<< >>)
    ELSE Then(Then(Wrote(write_byte(255)), serialize_step_recurse(step.next[1])),
              serialize_fork(step, i + 1))

\* for i in 0..step.next.len() - 1 { 0xff, next[i] }
serialize_fork(step, i) ==
    IF i > Len(step.next) - 1 THEN Wrote(<< >>)
    ELSE Then(Then(Wrote(write_byte(255)), serialize_step_recurse(step.next[i])),
              serialize_fork(step, i + 1))

serialize_step_recurse(step) ==
    CASE step.data.kind = "Fork" ->
            IF Len(step.next) = 0
            THEN \* len() - 1 underflows: the overflow check panics; without it
                 \* the loop writes 0xff and indexing next[0] panics
                 Aborted(IF build = "debug" THEN << >> ELSE write_byte(255))
            ELSE Then(serialize_fork(step, 1),
                      serialize_step_recurse(step.next[Len(step.next)]))
      [] step.data.kind = "Op" ->
            Then(Wrote(op_serialize(step.data.op)),
                 IF Len(step.next) = 0 THEN Aborted(<< >>)
                 ELSE serialize_step_recurse(step.next[1]))
      [] step.data.kind = "Attestation" ->
            Wrote(write_byte(0) \o attestation_serialize(step.data.attest))

serialize(timestamp) == serialize_step_recurse(timestamp.first_step)

----------------------------------------------------------------------------
(* DetachedTimestampFile (src/ots/ser.rs) *)

DetachedTimestampFile(digest_type, timestamp) ==
    [ digest_type |-> digest_type, timestamp |-> timestamp ]

\* from_reader looking at the digest tag before it checks the version
from_reader_tag_first(s) ==
    Try(read_magic(s, 1), LAMBDA magic, q1 :
    Try(read_uint(s, q1), LAMBDA recv_version, q2 :
    Try(read_byte(s, q2), LAMBDA tag_byte, q3 :
    Try(from_tag(tag_byte), LAMBDA digest_type, q0 :
    Try(read_version(s, q1), LAMBDA version, q00 :
    Try(read_fixed_bytes(s, q3, FromNat(digest_len(digest_type))), LAMBDA digest, q4 :
    Try(deserialize(s, q4, digest), LAMBDA timestamp, q5 :
    Try(check_eof(s, q5), LAMBDA eof, q6 :
        Ok(DetachedTimestampFile(digest_type, timestamp), q6)))))))))

from_reader(s) ==
    Try(read_magic(s, 1), LAMBDA magic, q1 :
    Try(read_version(s, q1), LAMBDA version, q2 :
    Try(read_byte(s, q2), LAMBDA tag_byte, q3 :
    Try(from_tag(tag_byte), LAMBDA digest_type, q0 :
    Try(read_fixed_bytes(s, q3, FromNat(digest_len(digest_type))), LAMBDA digest, q4 :
    Try(deserialize(s, q4, digest), LAMBDA timestamp, q5 :
    Try(check_eof(s, q5), LAMBDA eof, q6 :
        Ok(DetachedTimestampFile(digest_type, timestamp), q6))))))))

to_writer(file) ==
    Then(Wrote(write_magic \o write_version \o write_byte(to_tag(file.digest_type))
                 \o write_fixed_bytes(file.timestamp.start_digest)),
         serialize(file.timestamp))

----------------------------------------------------------------------------
(* Trees: paths, depth, the node invariants of the data model *)

RECURSIVE NodeAt(_, _)
NodeAt(step, path) ==
    IF path = << >> THEN step ELSE NodeAt(step.next[Head(path)], Tail(path))

RECURSIVE ReplaceAt(_, _, _)
ReplaceAt(step, path, node) ==
    IF path = << >> THEN node
    ELSE [ step EXCEPT !.next[Head(path)] = ReplaceAt(@, Tail(path), node) ]

RECURSIVE Paths(_)
Paths(step) ==
    { << >> } \cup UNION { { << i >> \o q : q \in Paths(step.next[i]) } :
                           i \in 1..Len(step.next) }

\* The number of nodes on the longest root-to-leaf path.
Depth(step) ==
    LET lens == { Len(q) : q \in Paths(step) }
    IN  1 + (CHOOSE n \in lens : \A m \in lens : m <= n)

IsPending(step) ==
    step.data.kind = "Attestation" /\ step.data.attest.type = "Pending"

\* The input of the node at path: the start digest at the root, the parent's
\* output below an Op, the parent's own input below a Fork.
RECURSIVE InputAt(_, _, _)
InputAt(step, digest, path) ==
    IF path = << >> THEN digest
    ELSE InputAt(step.next[Head(path)],
                 IF step.data.kind = "Op" THEN step.output ELSE digest,
                 Tail(path))

\* One node's invariant, given its input.
NodeOk(node, input) ==
    CASE node.data.kind = "Op" ->
            Len(node.next) = 1 /\ node.output = execute(node.data.op, input)
      [] node.data.kind = "Fork" ->
            Len(node.next) >= 2 /\ node.output = input
      [] node.data.kind = "Attestation" ->
            Len(node.next) = 0 /\ node.output = input

TreeOk(step, digest) ==
    \A q \in Paths(step) : NodeOk(NodeAt(step, q), InputAt(step, digest, q))

----------------------------------------------------------------------------
(* CalendarClient::get_timestamp (src/calendar.rs).  http is what the server *)
(* did with the GET request.                                                 *)

SendError == [ send |-> "error", status |-> 0, body |-> << >> ]
Response(status, body) == [ send |-> "ok", status |-> status, body |-> body ]

CalendarError == [ kind |-> "Calendar" ]

\* Ok(None), Ok(Some(bytes)) or Err
get_timestamp(http) ==
    IF http.send = "error" THEN Err([ kind |-> "Http" ])
    ELSE IF http.status = 404 THEN Ok([ some |-> FALSE, bytes |-> << >> ], 0)
    ELSE IF ~(http.status >= 200 /\ http.status <= 299) THEN Err(CalendarError)
    ELSE Ok([ some |-> TRUE, bytes |-> http.body ], 0)

parse_calendar_response(commitment, response) ==
    deserialize(response, 1, commitment)

----------------------------------------------------------------------------
(* verify (src/commands/verify.rs) and the BlockVerifier it asks           *)
(* (src/verifier.rs).                                                      *)

VerificationError == [ kind |-> "Verification" ]
NoBitcoinAttestation == [ kind |-> "NoBitcoinAttestation" ]

\* Option<([u8; 32], u32)>, with the paths of the steps the search has
\* looked at, in the order it looked at them.
Found(merkle_root, height, seen) ==
    [ some |-> TRUE, merkle_root |-> merkle_root, height |-> height, seen |-> seen ]
NotFound(seen) ==
    [ some |-> FALSE, merkle_root |-> << >>, height |-> {}, seen |-> seen ]

RECURSIVE find_bitcoin_attestation(_, _)
RECURSIVE find_in_next(_, _, _, _)

\* The turn that does not return on a hit while a later child holds one
find_returned_last(step, path, i, seen, r) ==
    IF r.some /\ ~find_in_next(step, path, i + 1, << >>).some
    THEN Found(r.merkle_root, r.height, seen \o r.seen)
    ELSE find_in_next(step, path, i + 1, seen \o r.seen)

\* One turn of the for loop once the recursive call has returned r.
find_returned(step, path, i, seen, r) ==
    IF r.some THEN Found(r.merkle_root, r.height, seen \o r.seen)
    ELSE find_in_next(step, path, i + 1, seen \o r.seen)

\* for next in &step.next, from the i-th child on
find_in_next(step, path, i, seen) ==
    IF i > Len(step.next) THEN NotFound(seen)
    ELSE find_returned(step, path, i, seen,
                       find_bitcoin_attestation(step.next[i], path \o << i >>))

find_bitcoin_attestation(step, path) ==
    IF step.data.kind = "Attestation" /\ step.data.attest.type = "Bitcoin"
    THEN IF Len(step.output) >= 32
         THEN Found(SubSeq(step.output, 1, 32), AsU32(step.data.attest.height),
                    << path >>)
         ELSE NotFound(<< path >>)
    ELSE find_in_next(step, path, 1, << path >>)

BlockHeader(merkle_root) == [ merkle_root |-> merkle_root ]

\* Step 4 of execute: found is what find_bitcoin_attestation returned and
\* header what get_block_header returns if it is asked.
verify_attestation(found, header) ==
    IF ~found.some
    THEN [ result |-> Err(NoBitcoinAttestation), requested |-> << >>,
           found |-> found ]
    ELSE [ requested |-> << found.height >>,
           found |-> found,
           result |-> IF ~header.ok THEN header
                      ELSE IF found.merkle_root # header.val.merkle_root
                      THEN Err(VerificationError)
                      ELSE Ok(TRUE, 0) ]

\* Steps 2 to 4 of execute on the loaded file.  target is how the target
\* file turned out: its path underivable, missing, unreadable, or hashed.
verify_execute(file, target, header) ==
    IF target.kind \in { "underivable", "missing" }
    THEN [ result |-> Err(VerificationError), requested |-> << >>,
           found |-> NotFound(<< >>) ]
    ELSE IF target.kind = "unreadable"
    THEN [ result |-> Err(IoError), requested |-> << >>, found |-> NotFound(<< >>) ]
    ELSE IF target.hash # file.timestamp.start_digest
    THEN [ result |-> Err(VerificationError), requested |-> << >>,
           found |-> NotFound(<< >>) ]
    ELSE verify_attestation(find_bitcoin_attestation(file.timestamp.first_step, << >>),
                            header)

----------------------------------------------------------------------------
(* The environment: proof files found on disk and calendar responses.      *)

MaxFork == 3        \* widest Fork among the generated files
MaxChain == 3       \* longest chain of Ops among the generated files
MaxTrailing == 2    \* most bytes appended after a proof
MaxWalks == 2       \* upgrade walks per run of the model
MaxBudget == 4      \* largest recursion budget tried besides RECURSION_LIMIT

BtcA == Bitcoin(FromNat(1))
BtcB == Bitcoin(FromNat(300))
PendA == Pending(<< 97 >>)
PendB == Pending(<< 98, 46, 99 >>)
Unk == Unknown(<< 1, 2, 3, 4, 5, 6, 7, 8 >>, << 9 >>)

\* The wire form of an attestation leaf, an Op node and a Fork node.
EncAtt(attest) == write_byte(0) \o attestation_serialize(attest)
EncOp(op, child) == op_serialize(op) \o child
RECURSIVE EncFork(_)
EncFork(children) ==
    IF Len(children) = 1 THEN children[1]
    ELSE write_byte(255) \o children[1] \o EncFork(Tail(children))

RECURSIVE EncChain(_, _)
EncChain(n, tail) == IF n = 0 THEN tail ELSE EncOp(Reverse, EncChain(n - 1, tail))

Digest20 == HashBytes(5, 20)
Digest32 == HashBytes(9, 32)

Header(version, digest_tag, digest) ==
    write_magic \o version \o write_byte(digest_tag) \o digest

Header20 == Header(write_version, 2, Digest20)

ForkKids == { EncAtt(PendA), EncAtt(BtcB) }

TreeEncodings ==
    { EncFork(cs) : cs \in UNION { [ 1..k -> ForkKids ] : k \in 2..MaxFork } }
    \cup { EncChain(n, tail) :
             n \in 0..MaxChain,
             tail \in { EncAtt(BtcA), EncFork(<< EncAtt(PendA), EncAtt(PendB) >>) } }
    \cup { EncAtt(PendA),
           EncOp(Sha256, EncAtt(PendA)),
           EncFork(<< EncAtt(PendA), EncAtt(Unk), EncAtt(PendB) >>),
           EncOp(OpAppend(<< 1, 2 >>),
                 EncOp(Sha256,
                       EncFork(<< EncAtt(PendA), EncOp(Reverse, EncAtt(PendB)) >>))),
           EncFork(<< EncFork(<< EncAtt(PendA), EncAtt(BtcA) >>), EncAtt(PendB) >>),
           EncOp(OpPrepend(<< 3 >>), EncOp(Hexlify, EncAtt(BtcA))),
           EncOp(Ripemd160, EncOp(Sha1, EncAtt(Unk))) }

\* Proofs as to_writer lays them out.
CanonicalFiles ==
    { Header20 \o e : e \in TreeEncodings }
    \cup { Header(write_version, 8, Digest32) \o EncOp(Sha256, EncAtt(BtcB)) }

TrailingBytes ==
    UNION { [ 1..k -> { 0, 255 } ] : k \in 1..MaxTrailing }

\* Other byte strings a file can hold: the same fields in other encodings,
\* bytes after the proof, and damaged files.
OtherFiles ==
    { Header20 \o e \o t :
        e \in { EncAtt(BtcA), EncFork(<< EncAtt(BtcB), EncAtt(PendA) >>) },
        t \in TrailingBytes }
    \cup { \* the version as a two-byte and as an eleven-byte varint
           Header(<< 129, 0 >>, 2, Digest20) \o EncAtt(BtcA),
           Header(<< 129, 128, 128, 128, 128, 128, 128, 128, 128, 128, 0 >>, 2, Digest20)
               \o EncAtt(BtcA),
           \* a Bitcoin attestation whose outer length is not the payload's
           Header20 \o write_byte(0) \o BITCOIN_TAG \o << 5 >> \o write_uint(FromNat(300)),
           \* a height as a two-byte varint
           Header20 \o write_byte(0) \o BITCOIN_TAG \o << 2, 129, 0 >>,
           \* a Pending attestation whose outer length is not the payload's
           Header20 \o EncFork(<< write_byte(0) \o PENDING_TAG \o << 0, 1, 97 >>,
                                  EncAtt(BtcA) >>),
           \* damaged: magic, version, digest tag, op tag, URI, cut short
           [ Header20 \o EncAtt(BtcA) EXCEPT ![31] = 149 ],
           Header(write_uint(FromNat(2)), 2, Digest20) \o EncAtt(BtcA),
           Header(write_version, 9, Digest20) \o EncAtt(BtcA),
           Header20 \o << 1 >> \o EncAtt(BtcA),
           Header20 \o write_byte(0) \o PENDING_TAG \o << 2, 1, 36 >>,
           Header20 \o write_byte(255) \o EncAtt(BtcA),
           Header20,
           \* damaged in several fields at once
           [ Header(write_uint(FromNat(2)), 9, Digest20) \o EncAtt(BtcA)
               EXCEPT ![31] = 149 ],
           Header(write_uint(FromNat(2)), 9, Digest20) \o EncAtt(BtcA),
           Header(write_uint(FromNat(300)), 2, Digest20) \o << 1 >>,
           Header(write_version, 9, Digest20) \o << 1 >>,
           SubSeq(MAGIC, 1, 30) }

\* What follows the outer length of a Bitcoin or Pending attestation
inner_payload(attest) ==
    IF attest.type = "Bitcoin" THEN write_uint(attest.height)
    ELSE write_bytes(as_bytes(attest.uri))

\* A leaf whose attestation carries the outer length `outer`, then `surplus`
Mislabelled(attest, outer, surplus) ==
    write_byte(0)
    \o (IF attest.type = "Bitcoin" THEN BITCOIN_TAG ELSE PENDING_TAG)
    \o write_uint(FromNat(outer)) \o inner_payload(attest) \o surplus

\* The longest surplus of an outer length
MaxSurplus == 2

\* Outer lengths other than the payload's, with the surplus bytes they count
\* present in the stream or not, at top level and as the first and the last
\* child of a Fork.
MislabelCases ==
    { [ attest |-> a, outer |-> n, surplus |-> s, place |-> pl ] :
        a \in { BtcB, PendA },
        n \in 0..(Len(inner_payload(BtcB)) + MaxSurplus),
        s \in { [ i \in 1..k |-> op_tag(Sha256) ] : k \in 0..MaxSurplus },
        pl \in { "top", "first", "last" } }

Mislabels ==
    { c \in MislabelCases :
        /\ c.outer # Len(inner_payload(c.attest))
        /\ c.outer \in { 0 } \cup { Len(inner_payload(c.attest)) + k : k \in 1..MaxSurplus }
        /\ Len(c.surplus) \in { 0, c.outer - Len(inner_payload(c.attest)) } }

MislabelFile(c) ==
    Header20 \o
    CASE c.place = "top" -> Mislabelled(c.attest, c.outer, c.surplus)
      [] c.place = "first" ->
            EncFork(<< Mislabelled(c.attest, c.outer, c.surplus), EncAtt(BtcA) >>)
      [] c.place = "last" ->
            EncFork(<< EncAtt(BtcA), Mislabelled(c.attest, c.outer, c.surplus) >>)

MislabelFiles == { MislabelFile(c) : c \in Mislabels }

Header32 == Header(write_version, 8, Digest32)

\* A Bitcoin height above u32::MAX: 2^32 + 1
BtcHigh == Bitcoin({ 32, 0 })

\* Proofs of a SHA256 digest, for verify: Bitcoin leaves with outputs of 20,
\* 32 and 34 bytes, before and after one another.
VerifyFiles ==
    { Header32 \o e :
        e \in { EncAtt(BtcA),
                EncAtt(PendA),
                EncAtt(BtcHigh),
                EncFork(<< EncOp(Sha1, EncAtt(BtcA)), EncAtt(BtcB) >>),
                EncFork(<< EncAtt(PendA), EncAtt(BtcA), EncAtt(BtcB) >>),
                EncFork(<< EncOp(Sha1, EncAtt(BtcA)), EncAtt(PendA) >>),
                EncOp(OpAppend(<< 1, 2 >>), EncAtt(BtcB)),
                EncOp(Reverse,
                      EncFork(<< EncFork(<< EncAtt(Unk), EncOp(Ripemd160, EncAtt(BtcA)) >>),
                                 EncOp(Sha256, EncAtt(BtcB)),
                                 EncAtt(BtcA) >>)) } }

Files == CanonicalFiles \cup OtherFiles \cup VerifyFiles \cup MislabelFiles

\* How the target file of verify turns out.
Target(kind, hash) == [ kind |-> kind, hash |-> hash ]
Targets ==
    { Target("underivable", << >>), Target("missing", << >>),
      Target("unreadable", << >>),
      Target("hashed", Digest32), Target("hashed", HashBytes(77, 32)) }

\* The Merkle roots a block header can hold here: those the tree commits to
\* and one it does not.
Roots(step) ==
    { SubSeq(NodeAt(step, q).output, 1, 32) :
        q \in { x \in Paths(step) : Len(NodeAt(step, x).output) >= 32 } }
    \cup { HashBytes(99, 32) }

\* What get_block_header can return.
HeaderOutcomes(step) ==
    { Err(VerificationError) } \cup { Ok(BlockHeader(r), 0) : r \in Roots(step) }

\* What a calendar can send back for GET /timestamp/<commitment>.
Bodies ==
    { EncAtt(BtcA),
      EncOp(Sha256, EncAtt(BtcB)),
      EncFork(<< EncAtt(BtcA), EncAtt(PendB) >>),
      << 255, 255 >>,
      \* an unknown attestation that declares 2^63 bytes
      write_byte(0) \o << 9, 9, 9, 9, 9, 9, 9, 9 >> \o write_uint({ 63 }) }

HttpOutcomes ==
    { SendError, Response(404, << >>), Response(500, << >>) }
    \cup { Response(200, b) : b \in Bodies }

----------------------------------------------------------------------------
(* The state machine *)

NoFile == [ digest_type |-> "None" ]
NoError == [ kind |-> "None" ]
NoTimestamp == [ ok |-> FALSE, err |-> NoError ]
NoStep == [ data |-> [ kind |-> "None" ], output |-> << >>, next |-> << >> ]

NoVerdict == [ target |-> Target("none", << >>), result |-> NoTimestamp,
               requested |-> << >>, found |-> NotFound(<< >>),
               header |-> NoTimestamp ]
NoJob == [ op |-> "none", arg |-> << >> ]
CodecIdle ==
    job = NoJob /\ cpc = "idle" /\ wire = << >> /\ rpos = 1 /\ out = NoTimestamp

NoStamp == [ calendar_urls |-> << >>, file_digest |-> << >>, nonce |-> << >>,
             commitment |-> << >> ]
StampIdle ==
    /\ spc = "idle" /\ stamp = NoStamp /\ urls = << >> /\ contacted = << >>
    /\ last_error = NoError /\ submitted = NoTimestamp /\ stamped = NoTimestamp

\* A file of the file system; NoBackup: no file at <file>.bak
File(bytes) == [ exists |-> TRUE, bytes |-> bytes ]
NoBackup == [ exists |-> FALSE, bytes |-> << >> ]

\* No upgrade command with its file system under way
SaveIdle == dry_run = FALSE /\ bak = NoBackup

\* No file command under way
FileIdle ==
    /\ disk = << >>
    /\ calendar = << >>
    /\ pc = "idle"
    /\ ots = NoFile
    /\ err = NoError
    /\ written = << >>
    /\ readback = NoTimestamp
    /\ todo = << >>
    /\ upgraded = FALSE
    /\ requests = << >>
    /\ new_timestamp = NoTimestamp
    /\ before = NoStep
    /\ replaced = {}
    /\ walks = << >>
    /\ verdict = NoVerdict

Init ==
    /\ disk \in Files
    /\ build \in { "debug", "release" }
    /\ calendar = << >>
    /\ pc = "start"
    /\ ots = NoFile
    /\ err = NoError
    /\ written = << >>
    /\ readback = NoTimestamp
    /\ todo = << >>
    /\ upgraded = FALSE
    /\ requests = << >>
    /\ new_timestamp = NoTimestamp
    /\ before = NoStep
    /\ replaced = {}
    /\ walks = << >>
    /\ verdict = NoVerdict
    /\ CodecIdle
    /\ StampIdle
    /\ SaveIdle

\* DetachedTimestampFile::from_reader on the file (the start of info, verify
\* and upgrade).
FromReader ==
    /\ pc = "start"
    /\ \E r \in { from_reader(disk) } :
           /\ ots' = IF r.ok THEN r.val ELSE NoFile
           /\ err' = IF r.ok THEN NoError ELSE r.err
           /\ pc' = IF r.ok THEN "loaded"
                    ELSE IF r.err = Panic THEN "aborted" ELSE "failed"
    /\ UNCHANGED << disk, build, calendar, written, readback, todo, upgraded,
                    requests, new_timestamp, before, replaced, walks >>
    /\ UNCHANGED << verdict, codecVars, stampVars, saveVars >>

\* DetachedTimestampFile::to_writer into a buffer.
ToWriter ==
    /\ pc \in { "loaded", "walked" }
    /\ \E w \in { to_writer(ots) } :
           /\ written' = w.bytes
           /\ pc' = IF w.ok THEN "written" ELSE "aborted"
           /\ err' = IF w.ok THEN NoError ELSE Panic
    /\ UNCHANGED << disk, build, calendar, ots, readback, todo, upgraded,
                    requests, new_timestamp, before, replaced, walks >>
    /\ UNCHANGED << verdict, codecVars, stampVars, saveVars >>

\* from_reader on the buffer just written.
ReadBack ==
    /\ pc = "written"
    /\ readback' = from_reader(written)
    /\ pc' = "done"
    /\ UNCHANGED << disk, build, calendar, ots, err, written, todo, upgraded,
                    requests, new_timestamp, before, replaced, walks >>
    /\ UNCHANGED << verdict, codecVars, stampVars, saveVars >>

\* upgrade_timestamp: the call of upgrade_step on the first step.
UpgradeBegin ==
    /\ pc \in { "loaded", "walked" }
    /\ Len(walks) < MaxWalks
    /\ pc' = "walking"
    /\ todo' = << << >> >>
    /\ upgraded' = FALSE
    /\ requests' = << >>
    /\ new_timestamp' = NoTimestamp
    /\ before' = ots.timestamp.first_step
    /\ replaced' = {}
    /\ UNCHANGED << disk, build, calendar, ots, err, written, readback, walks >>
    /\ UNCHANGED << verdict, codecVars, stampVars, saveVars >>

Current == NodeAt(ots.timestamp.first_step, Head(todo))

Key(step) == << step.data.attest.uri, step.output >>

\* The merge taking the fetched first step whole, output included
merge_whole(step, got, parsed) ==
    [ step |-> IF parsed.ok THEN parsed.val.first_step ELSE step,
      upgraded |-> parsed.ok,
      parsed |-> parsed,
      result |-> IF parsed.ok THEN "merged"
                 ELSE IF ~got.ok THEN "error"
                 ELSE IF ~got.val.some THEN "none"
                 ELSE IF parsed.err = Panic THEN "panicked"
                 ELSE "parse_failed" ]

\* The merge raising the flag for every response received, decoded or not
merge_flagged(step, got, parsed) ==
    [ step |-> IF parsed.ok
               THEN [ step EXCEPT !.data = parsed.val.first_step.data,
                                  !.next = parsed.val.first_step.next ]
               ELSE step,
      upgraded |-> got.ok /\ got.val.some,
      parsed |-> parsed,
      result |-> IF parsed.ok THEN "merged"
                 ELSE IF ~got.ok THEN "error"
                 ELSE IF ~got.val.some THEN "none"
                 ELSE IF parsed.err = Panic THEN "panicked"
                 ELSE "parse_failed" ]

\* The Pending arm of upgrade_step once get_timestamp and
\* parse_calendar_response have returned: the step it leaves, whether it
\* upgraded, and how the request ended.
merge(step, got, parsed) ==
    [ step |-> IF parsed.ok
               THEN [ step EXCEPT !.data = parsed.val.first_step.data,
                                  !.next = parsed.val.first_step.next ]
               ELSE step,
      upgraded |-> parsed.ok,
      parsed |-> parsed,
      result |-> IF parsed.ok THEN "merged"
                 ELSE IF ~got.ok THEN "error"
                 ELSE IF ~got.val.some THEN "none"
                 ELSE IF parsed.err = Panic THEN "panicked"
                 ELSE "parse_failed" ]

fetched(step, got) ==
    merge(step, got,
          IF got.ok /\ got.val.some
          THEN parse_calendar_response(step.output, got.val.bytes)
          ELSE NoTimestamp)

upgrade_pending(step, http) == fetched(step, get_timestamp(http))

\* upgrade_step on a Pending leaf.
UpgradePending ==
    /\ pc = "walking" /\ todo # << >>
    /\ IsPending(Current)
    /\ \E http \in HttpOutcomes :
         /\ IF Key(Current) \in DOMAIN calendar
            THEN http = calendar[Key(Current)] /\ UNCHANGED calendar
            ELSE calendar' = [ k \in DOMAIN calendar \cup { Key(Current) } |->
                                 IF k = Key(Current) THEN http ELSE calendar[k] ]
         /\ \E r \in { upgrade_pending(Current, http) } :
                /\ ots' = [ ots EXCEPT !.timestamp.first_step =
                                          ReplaceAt(@, Head(todo), r.step) ]
                /\ upgraded' = (upgraded \/ r.upgraded)
                /\ new_timestamp' = r.parsed
                /\ replaced' = IF r.upgraded THEN replaced \cup { Head(todo) } ELSE replaced
                /\ requests' = Append(requests,
                                      [ uri |-> Current.data.attest.uri,
                                        commitment |-> Current.output,
                                        path |-> Head(todo),
                                        result |-> r.result ])
                /\ pc' = IF r.result = "panicked" THEN "aborted" ELSE "walking"
                /\ err' = IF r.result = "panicked" THEN Panic ELSE err
    /\ todo' = Tail(todo)
    /\ UNCHANGED << disk, build, written, readback, before, walks >>
    /\ UNCHANGED << verdict, codecVars, stampVars, saveVars >>

\* The paths of the children of the node at path, first child first.
RECURSIVE ChildPaths(_, _, _)
ChildPaths(path, n, i) ==
    IF i > n THEN << >>
    ELSE << path \o << i >> >> \o ChildPaths(path, n, i + 1)

\* upgrade_step on a Fork: one call per branch, in order.
UpgradeFork ==
    /\ pc = "walking" /\ todo # << >>
    /\ Current.data.kind = "Fork"
    /\ todo' = ChildPaths(Head(todo), Len(Current.next), 1) \o Tail(todo)
    /\ UNCHANGED << disk, build, calendar, pc, ots, err, written, readback,
                    upgraded, requests, new_timestamp, before, replaced, walks >>
    /\ UNCHANGED << verdict, codecVars, stampVars, saveVars >>

\* upgrade_step on an Op: one call per next step, in order.
UpgradeOp ==
    /\ pc = "walking" /\ todo # << >>
    /\ Current.data.kind = "Op"
    /\ todo' = ChildPaths(Head(todo), Len(Current.next), 1) \o Tail(todo)
    /\ UNCHANGED << disk, build, calendar, pc, ots, err, written, readback,
                    upgraded, requests, new_timestamp, before, replaced, walks >>
    /\ UNCHANGED << verdict, codecVars, stampVars, saveVars >>

\* upgrade_step on a Bitcoin or Unknown attestation: nothing to do.
UpgradeComplete ==
    /\ pc = "walking" /\ todo # << >>
    /\ Current.data.kind = "Attestation"
    /\ Current.data.attest.type \in { "Bitcoin", "Unknown" }
    /\ todo' = Tail(todo)
    /\ UNCHANGED << disk, build, calendar, pc, ots, err, written, readback,
                    upgraded, requests, new_timestamp, before, replaced, walks >>
    /\ UNCHANGED << verdict, codecVars, stampVars, saveVars >>

\* The outermost upgrade_step returns Ok(upgraded) to execute.
UpgradeReturn ==
    /\ pc = "walking" /\ todo = << >>
    /\ pc' = "walked"
    /\ walks' = Append(walks, ots.timestamp.first_step)
    /\ UNCHANGED << disk, build, calendar, ots, err, written, readback, todo,
                    upgraded, requests, new_timestamp, before, replaced >>
    /\ UNCHANGED << verdict, codecVars, stampVars, saveVars >>

\* verify's execute after from_reader: the target file, the search for the
\* Bitcoin attestation, the block header, the comparison.
Verify ==
    /\ pc = "loaded"
    /\ \E target \in Targets, header \in HeaderOutcomes(ots.timestamp.first_step) :
         \E v \in { verify_execute(ots, target, header) } :
             /\ verdict' = [ target |-> target, result |-> v.result,
                             requested |-> v.requested,
                             found |-> v.found,
                             header |-> header ]
             /\ err' = IF v.result.ok THEN NoError ELSE v.result.err
    /\ pc' = "verified"
    /\ UNCHANGED << disk, build, calendar, ots, written, readback, todo, upgraded,
                    requests, new_timestamp, before, replaced, walks, codecVars,
                    stampVars, saveVars >>

Next ==
    \/ Verify
    \/ FromReader
    \/ ToWriter
    \/ ReadBack
    \/ UpgradeBegin
    \/ UpgradePending
    \/ UpgradeFork
    \/ UpgradeOp
    \/ UpgradeComplete
    \/ UpgradeReturn

Spec == Init /\ [][Next]_vars

----------------------------------------------------------------------------
(* The upgrade command with the files it writes: execute of                *)
(* src/commands/upgrade.rs from File::open to the saved proof.             *)

\* The backup made whatever is at <file>.bak
backup_overwriting(existing, bytes, copy) ==
    IF copy = "copied" THEN [ ok |-> TRUE, bak |-> File(bytes) ]
    ELSE IF copy = "cut" THEN [ ok |-> FALSE, bak |-> File(<< >>) ]
    ELSE [ ok |-> FALSE, bak |-> existing ]

\* Step 3 of execute: no copy if <file>.bak exists, else fs::copy, which
\* copies the file, fails before creating the copy, or fails after it.
backup(existing, bytes, copy) ==
    IF existing.exists THEN [ ok |-> TRUE, bak |-> existing ]
    ELSE IF copy = "copied" THEN [ ok |-> TRUE, bak |-> File(bytes) ]
    ELSE IF copy = "cut" THEN [ ok |-> FALSE, bak |-> File(<< >>) ]
    ELSE [ ok |-> FALSE, bak |-> existing ]

CopyOutcomes == { "copied", "cut", "refused" }

\* Proofs for the upgrade command: with and without Pending leaves, and
\* files from_reader refuses.
SaveFiles ==
    { Header20 \o e :
        e \in { EncAtt(PendA), EncAtt(BtcA),
                EncFork(<< EncAtt(PendA), EncAtt(BtcB) >>),
                EncFork(<< EncAtt(PendA), EncAtt(PendB) >>),
                EncOp(Sha256, EncAtt(PendB)),
                EncAtt(PendA) \o << 0 >>,
                << 1 >> } }

Backups == { NoBackup, File(<< 1 >>), File(Header20 \o EncAtt(PendB)) }

InitSave ==
    /\ disk \in SaveFiles
    /\ build \in { "debug", "release" }
    /\ calendar = << >>
    /\ pc = "start"
    /\ ots = NoFile
    /\ err = NoError
    /\ written = << >>
    /\ readback = NoTimestamp
    /\ todo = << >>
    /\ upgraded = FALSE
    /\ requests = << >>
    /\ new_timestamp = NoTimestamp
    /\ before = NoStep
    /\ replaced = {}
    /\ walks = << >>
    /\ verdict = NoVerdict
    /\ CodecIdle
    /\ StampIdle
    /\ dry_run \in BOOLEAN
    /\ bak \in Backups

\* execute: File::open fails
OpenFails ==
    /\ pc = "start"
    /\ pc' = "failed"
    /\ err' = IoError
    /\ UNCHANGED << disk, build, calendar, ots, written, readback, todo, upgraded,
                    requests, new_timestamp, before, replaced, walks >>
    /\ UNCHANGED << verdict, codecVars, stampVars, saveVars >>

\* execute: the one call of upgrade_timestamp
ExecuteWalk == walks = << >> /\ UpgradeBegin

\* execute: the returns for nothing upgraded and for a dry run
ExecuteReturn ==
    /\ pc = "walked"
    /\ ~upgraded \/ dry_run
    /\ pc' = "returned"
    /\ UNCHANGED << disk, build, calendar, ots, err, written, readback, todo,
                    upgraded, requests, new_timestamp, before, replaced, walks >>
    /\ UNCHANGED << verdict, codecVars, stampVars, saveVars >>

\* execute step 3
Backup ==
    /\ pc = "walked"
    /\ upgraded /\ ~dry_run
    /\ \E copy \in CopyOutcomes :
         \E b \in { backup(bak, disk, copy) } :
             /\ bak' = b.bak
             /\ pc' = IF b.ok THEN "backed_up" ELSE "failed"
             /\ err' = IF b.ok THEN err ELSE IoError
    /\ UNCHANGED << disk, build, calendar, ots, written, readback, todo, upgraded,
                    requests, new_timestamp, before, replaced, walks >>
    /\ UNCHANGED << verdict, codecVars, stampVars, dry_run >>

\* execute step 4: File::create empties the file, or fails
Create ==
    /\ pc = "backed_up"
    /\ \E created \in BOOLEAN :
           /\ disk' = IF created THEN << >> ELSE disk
           /\ pc' = IF created THEN "created" ELSE "failed"
           /\ err' = IF created THEN err ELSE IoError
    /\ UNCHANGED << build, calendar, ots, written, readback, todo, upgraded,
                    requests, new_timestamp, before, replaced, walks >>
    /\ UNCHANGED << verdict, codecVars, stampVars, saveVars >>

\* execute step 4: to_writer into the BufWriter on the created file.  The
\* bytes reach the file when the BufWriter is dropped, which ignores a
\* failing write.
Save ==
    /\ pc = "created"
    /\ \E w \in { to_writer(ots) }, flushed \in BOOLEAN :
           /\ written' = w.bytes
           /\ disk' = IF flushed THEN w.bytes ELSE << >>
           /\ pc' = IF w.ok THEN "saved" ELSE "aborted"
           /\ err' = IF w.ok THEN NoError ELSE Panic
    /\ UNCHANGED << build, calendar, ots, readback, todo, upgraded,
                    requests, new_timestamp, before, replaced, walks >>
    /\ UNCHANGED << verdict, codecVars, stampVars, saveVars >>

NextSave ==
    \/ OpenFails
    \/ FromReader
    \/ ExecuteWalk
    \/ UpgradePending
    \/ UpgradeFork
    \/ UpgradeOp
    \/ UpgradeComplete
    \/ UpgradeReturn
    \/ ExecuteReturn
    \/ Backup
    \/ Create
    \/ Save

SpecSave == InitSave /\ [][NextSave]_vars

----------------------------------------------------------------------------
(* The codec on its own: one value or one stream handed to one call of the *)
(* serializer and the deserializer (src/ots/ser.rs, op.rs, attestation.rs). *)

MaxSmall == 130     \* every usize from 0 to MaxSmall is written and read
MaxPayload == 4     \* most bytes after a length prefix handed to read_bytes

\* n bytes
Bytes(n) == [ i \in 1..n |-> (i * 7) % 256 ]

\* A string of n characters of the whitelist
Str(n) == [ i \in 1..n |-> 97 + (i % 26) ]

Payloads ==
    { << >>, << 7 >>, << 1, 2, 3 >>, Bytes(127), Bytes(128), Bytes(MAX_OP_LENGTH),
      Bytes(MAX_OP_LENGTH + 1) }

Ops ==
    { Sha1, Sha256, Ripemd160, Hexlify, Reverse }
    \cup { OpAppend(d) : d \in Payloads } \cup { OpPrepend(d) : d \in Payloads }

\* usize values: the small ones, powers of two, the largest
Usizes ==
    { FromNat(n) : n \in 0..MaxSmall }
    \cup { FromNat(16383), FromNat(16384), FromNat(2097151), FromNat(2097152) }
    \cup { { k } : k \in { 31, 32, 55, 56, 62, 63 } }
    \cup { { 0, 32 }, { 0, 63 }, 0..62, 0..63, 1..63 }

OtherTag == << 1, 2, 3, 4, 5, 6, 7, 8 >>

Attestations ==
    { Bitcoin(h) : h \in { {}, FromNat(1), FromNat(127), FromNat(128), FromNat(300),
                           { 32, 0 }, { 63 }, 0..63 } }
    \cup { Pending(u) : u \in { << >>, << 97 >>, << 98, 46, 99 >>,
                                << 104, 116, 116, 112, 115, 58, 47, 47, 65, 45, 90,
                                   95, 48, 46, 57 >>,
                                Str(127), Str(128), Str(MAX_URI_LEN - 1),
                                Str(MAX_URI_LEN) } }
    \cup { Unknown(tg, d) :
             tg \in { OtherTag, [ i \in 1..TAG_SIZE |-> 0 ],
                      [ BITCOIN_TAG EXCEPT ![TAG_SIZE] = 2 ] },
             d \in { << >>, << 9 >>, Bytes(128), Bytes(MAX_URI_LEN + 1) } }

\* Pending attestations as a stream can hold them: the URI length declared,
\* and the URI bytes, given as characters or as raw bytes.
Uri(declared, chars, raw) == [ declared |-> declared, chars |-> chars, raw |-> raw ]
Chars(str) == Uri(FromNat(Len(as_bytes(str))), str, as_bytes(str))
Raw(bytes) == Uri(FromNat(Len(bytes)), << >>, bytes)

PendingUris ==
    { Chars(s) : s \in { << >>, << 97 >>, << 36 >>, << 97, 36, 98, 35 >>,
                         << 97, 98, 32 >>, << 0 >>, << 233 >>, << 97, 8364 >>,
                         << 128512, 36 >>, << 122, 90, 57, 46, 45, 95, 47, 58 >>,
                         << 96 >>, << 123 >>, << 64 >>, << 91 >>, << 59 >>, << 44 >>,
                         Str(MAX_URI_LEN), Str(MAX_URI_LEN) \o << 36 >>,
                         [ Str(MAX_URI_LEN) EXCEPT ![MAX_URI_LEN] = 36 ] } }
    \cup { Raw(b) : b \in { << 255 >>, << 128 >>, << 195 >>, << 195, 40 >>,
                            << 97, 237, 160, 128 >>, << 36, 255 >>,
                            << 192, 128 >>, Str(MAX_URI_LEN + 1) } }
    \cup { Uri(n, << >>, b) :
             n \in { FromNat(MAX_URI_LEN + 1), { 63 }, 0..63 },
             b \in { << >>, << 97 >> } }
    \cup { Uri(FromNat(3), << >>, << 97 >>) }

PendingStream(u) ==
    PENDING_TAG \o write_uint(FromNat(Len(write_uint(u.declared)) + Len(u.raw)))
      \o write_uint(u.declared) \o u.raw

\* Calls of read_bytes: the bounds, the length the stream declares and the
\* bytes that follow it.
Limits == { << 0, MAX_URI_LEN >>, << 1, MAX_OP_LENGTH >>, << 2, 3 >>, << 0, 0 >> }

ReadBytesCalls ==
    { [ min |-> l[1], max |-> l[2], declared |-> n, rest |-> Bytes(k) ] :
        l \in Limits,
        n \in { FromNat(i) : i \in 0..MaxPayload }
               \cup { FromNat(MAX_URI_LEN), FromNat(MAX_URI_LEN + 1),
                      FromNat(MAX_OP_LENGTH), FromNat(MAX_OP_LENGTH + 1), { 40 }, { 63 } },
        k \in { 0, MaxPayload, MAX_OP_LENGTH + 1 } }

\* Trees to serialize, described by their shape: << "A", attestation >>,
\* << "O", op, child >> (<< "O", op >> for an Op without child) and
\* << "F", children >>.
A(attest) == << "A", attest >>
O(op, child) == << "O", op, child >>
F(children) == << "F", children >>

RECURSIVE Build(_, _)
Build(shape, input) ==
    CASE shape[1] = "A" -> Step(AttestationData(shape[2]), input, << >>)
      [] shape[1] = "O" ->
            Step(OpData(shape[2]), execute(shape[2], input),
                 IF Len(shape) = 2 THEN << >>
                 ELSE << Build(shape[3], execute(shape[2], input)) >>)
      [] shape[1] = "F" ->
            Step(Fork, input, [ i \in 1..Len(shape[2]) |-> Build(shape[2][i], input) ])

\* Trees that keep the node invariants
LegalShapes ==
    { A(BtcA), A(PendA),
      O(Sha256, A(BtcA)),
      O(OpAppend(<< 1, 2 >>), O(Sha1, A(PendB))),
      F(<< A(PendA), A(BtcB) >>),
      F(<< A(PendA), A(BtcB), A(Unk) >>),
      F(<< O(Sha256, A(BtcA)), O(Reverse, F(<< A(PendA), A(BtcB) >>)) >>),
      F(<< F(<< A(PendA), A(BtcB) >>), A(BtcA) >>),
      \* a Fork as the last child of a Fork
      F(<< A(BtcA), F(<< A(PendA), A(BtcB) >>) >>),
      F(<< A(BtcA), F(<< A(PendA), F(<< A(BtcB), A(Unk) >>) >>) >>),
      F(<< F(<< A(BtcA), A(PendA) >>), F(<< A(PendB), A(BtcB) >>) >>),
      F(<< O(Hexlify, A(PendA)), O(Sha1, F(<< A(BtcA), A(Unk) >>)) >>) }

\* Trees that break the arity invariants
IllegalShapes ==
    { F(<< >>), F(<< A(BtcA) >>), << "O", Sha256 >>, << "O", OpAppend(<< 1 >>) >>,
      F(<< A(PendA), F(<< >>) >>), O(Reverse, F(<< >>)),
      F(<< A(BtcA), << "O", Sha1 >> >>), F(<< F(<< A(PendA) >>), A(BtcA) >>),
      O(Sha256, F(<< A(BtcB) >>)) }

Trees == { Timestamp(Digest20, Build(sh, Digest20)) : sh \in LegalShapes \cup IllegalShapes }

\* Streams for Attestation::deserialize: a tag, a declared outer length and
\* the bytes that follow it.
AttestationStreams ==
    { [ tag |-> tg, len |-> n, rest |-> r ] :
        tg \in { BITCOIN_TAG, PENDING_TAG, OtherTag },
        n \in { FromNat(1), FromNat(2), FromNat(MAX_URI_LEN + 1),
                FromNat(MAX_OP_LENGTH), FromNat(MAX_OP_LENGTH + 1), { 40 }, { 63 } },
        r \in { write_uint(FromNat(300)), write_bytes(Str(1)),
                write_bytes(Str(MAX_URI_LEN + 1)),
                Bytes(MAX_OP_LENGTH), Bytes(MAX_OP_LENGTH + 1) } }

Job(op, arg) == [ op |-> op, arg |-> arg ]

\* The codec specification starts with a value to write or a stream to read.
InitCodec ==
    /\ FileIdle
    /\ StampIdle
    /\ SaveIdle
    /\ build \in { "debug", "release" }
    /\ rpos = 1
    /\ out = NoTimestamp
    /\ \/ /\ job \in { Job("Op", o) : o \in Ops }
                     \cup { Job("Attestation", a) : a \in Attestations }
                     \cup { Job("Uint", n) : n \in Usizes }
                     \cup { Job("Tree", tr) : tr \in Trees }
          /\ wire = << >>
          /\ cpc = "call"
       \/ /\ \E u \in PendingUris :
                job = Job("Pending", u) /\ wire = PendingStream(u)
          /\ cpc = "written"
       \/ /\ \E c \in ReadBytesCalls :
                job = Job("Bytes", c) /\ wire = write_uint(c.declared) \o c.rest
          /\ cpc = "written"
       \/ /\ \E c \in AttestationStreams :
                job = Job("Stream", c) /\ wire = c.tag \o write_uint(c.len) \o c.rest
          /\ cpc = "written"

\* Op::serialize
OpSerialize ==
    /\ cpc = "call" /\ job.op = "Op"
    /\ wire' = op_serialize(job.arg)
    /\ cpc' = "written"
    /\ UNCHANGED << fileVars, verdict, stampVars, saveVars, job, rpos, out >>

\* Op::deserialize on the bytes written
OpDeserialize ==
    /\ cpc = "written" /\ job.op = "Op"
    /\ \E r \in { op_deserialize(wire, rpos) } :
           /\ out' = r
           /\ rpos' = IF r.ok THEN r.pos ELSE rpos
    /\ cpc' = "done"
    /\ UNCHANGED << fileVars, verdict, stampVars, saveVars, job, wire >>

\* Attestation::serialize
AttestationSerialize ==
    /\ cpc = "call" /\ job.op = "Attestation"
    /\ wire' = attestation_serialize(job.arg)
    /\ cpc' = "written"
    /\ UNCHANGED << fileVars, verdict, stampVars, saveVars, job, rpos, out >>

\* Attestation::deserialize on the bytes written, or on a stream
AttestationDeserialize ==
    /\ cpc = "written" /\ job.op \in { "Attestation", "Pending", "Stream" }
    /\ \E r \in { attestation_deserialize(wire, rpos) } :
           /\ out' = r
           /\ rpos' = IF r.ok THEN r.pos ELSE rpos
    /\ cpc' = "done"
    /\ UNCHANGED << fileVars, verdict, stampVars, saveVars, job, wire >>

\* Serializer::write_uint
WriteUint ==
    /\ cpc = "call" /\ job.op = "Uint"
    /\ wire' = write_uint(job.arg)
    /\ cpc' = "written"
    /\ UNCHANGED << fileVars, verdict, stampVars, saveVars, job, rpos, out >>

\* Deserializer::read_uint on the bytes written
ReadUint ==
    /\ cpc = "written" /\ job.op = "Uint"
    /\ \E r \in { read_uint(wire, rpos) } :
           /\ out' = r
           /\ rpos' = IF r.ok THEN r.pos ELSE rpos
    /\ cpc' = "done"
    /\ UNCHANGED << fileVars, verdict, stampVars, saveVars, job, wire >>

\* Deserializer::read_bytes up to its length check: read_uint has moved the
\* reader past the length, and an out-of-range length returns here.
ReadBytesLength ==
    /\ cpc = "written" /\ job.op = "Bytes"
    /\ \E n \in { read_uint(wire, rpos) } :
           /\ rpos' = IF n.ok THEN n.pos ELSE rpos
           /\ IF n.ok /\ ~(ULt(n.val, job.arg.min) \/ UGt(n.val, job.arg.max))
              THEN cpc' = "length_read" /\ out' = out
              ELSE cpc' = "done" /\ out' = read_bytes(wire, rpos, job.arg.min, job.arg.max)
    /\ UNCHANGED << fileVars, verdict, stampVars, saveVars, job, wire >>

\* Deserializer::read_bytes from its length check on: read_fixed_bytes.
ReadBytesPayload ==
    /\ cpc = "length_read" /\ job.op = "Bytes"
    /\ \E r \in { read_bytes(wire, 1, job.arg.min, job.arg.max) } :
           /\ out' = r
           /\ rpos' = IF r.ok THEN r.pos ELSE rpos
    /\ cpc' = "done"
    /\ UNCHANGED << fileVars, verdict, stampVars, saveVars, job, wire >>

\* Timestamp::serialize; a panic ends the call
TimestampSerialize ==
    /\ cpc = "call" /\ job.op = "Tree"
    /\ \E w \in { serialize(job.arg) } :
           /\ wire' = w.bytes
           /\ cpc' = IF w.ok THEN "written" ELSE "done"
           /\ out' = IF w.ok THEN out ELSE Err(Panic)
    /\ UNCHANGED << fileVars, verdict, stampVars, saveVars, job, rpos >>

\* Timestamp::deserialize on the bytes written, from the tree's start digest
TimestampDeserialize ==
    /\ cpc = "written" /\ job.op = "Tree"
    /\ \E r \in { deserialize(wire, rpos, job.arg.start_digest) } :
           /\ out' = r
           /\ rpos' = IF r.ok THEN r.pos ELSE rpos
    /\ cpc' = "done"
    /\ UNCHANGED << fileVars, verdict, stampVars, saveVars, job, wire >>

NextCodec ==
    \/ OpSerialize
    \/ OpDeserialize
    \/ AttestationSerialize
    \/ AttestationDeserialize
    \/ WriteUint
    \/ ReadUint
    \/ ReadBytesLength
    \/ ReadBytesPayload
    \/ TimestampSerialize
    \/ TimestampDeserialize

SpecCodec == InitCodec /\ [][NextCodec]_vars

----------------------------------------------------------------------------
(* The replacements of upgrade_step (src/commands/upgrade.rs) taken one    *)
(* leaf at a time, in any order, against the walk in tree order.           *)

\* The Pending arm of upgrade_step for the answer the calendar has for the leaf
answered(step, answers) ==
    IF IsPending(step) /\ Key(step) \in DOMAIN answers
    THEN upgrade_pending(step, answers[Key(step)]).step
    ELSE step

RECURSIVE upgrade_in_order(_, _)
\* upgrade_step going on into the children of the subtree it has just fetched
upgrade_in_order_again(step, answers) ==
    IF IsPending(step)
    THEN [ answered(step, answers) EXCEPT
             !.next = [ i \in 1..Len(@) |-> answered(@[i], answers) ] ]
    ELSE IF step.next = << >> THEN step
    ELSE [ step EXCEPT
             !.next = [ i \in 1..Len(@) |-> upgrade_in_order(@[i], answers) ] ]

\* upgrade_step as a function: the tree the walk leaves, given the answer
\* the calendar has for each leaf
upgrade_in_order(step, answers) ==
    IF IsPending(step) THEN answered(step, answers)
    ELSE IF step.next = << >> THEN step
    ELSE [ step EXCEPT
             !.next = [ i \in 1..Len(@) |-> upgrade_in_order(@[i], answers) ] ]

\* Proofs with several Pending leaves
ReplaceFiles ==
    { Header20 \o e :
        e \in { EncFork(<< EncAtt(PendA), EncAtt(PendB) >>),
                EncFork(<< EncAtt(PendA), EncAtt(PendA) >>),
                EncFork(<< EncAtt(PendA), EncAtt(Unk), EncAtt(PendB) >>),
                EncOp(OpAppend(<< 1, 2 >>),
                      EncOp(Sha256,
                            EncFork(<< EncAtt(PendA), EncOp(Reverse, EncAtt(PendB)) >>))),
                EncFork(<< EncFork(<< EncAtt(PendA), EncAtt(BtcA) >>), EncAtt(PendB) >>),
                EncFork(<< EncAtt(PendA), EncAtt(PendB), EncOp(Sha256, EncAtt(PendA)) >>) } }

PendingKeys(step) ==
    { Key(NodeAt(step, q)) : q \in { r \in Paths(step) : IsPending(NodeAt(step, r)) } }

\* A proof is in memory and the calendar's answer for each Pending leaf is fixed.
InitReplace ==
    /\ disk \in ReplaceFiles
    /\ build \in { "debug", "release" }
    /\ ots = from_reader(disk).val
    /\ calendar \in [ PendingKeys(ots.timestamp.first_step) -> HttpOutcomes ]
    /\ pc = "replacing"
    /\ err = NoError
    /\ written = << >>
    /\ readback = NoTimestamp
    /\ todo = << >>
    /\ upgraded = FALSE
    /\ requests = << >>
    /\ new_timestamp = NoTimestamp
    /\ before = ots.timestamp.first_step
    /\ replaced = {}
    /\ walks = << >>
    /\ verdict = NoVerdict
    /\ CodecIdle
    /\ StampIdle
    /\ SaveIdle

\* The Pending arm of upgrade_step at any Pending leaf of the starting tree
\* that has not had its turn.
ReplaceAny ==
    /\ pc = "replacing"
    /\ \E q \in { r \in Paths(before) : IsPending(NodeAt(before, r)) } :
         /\ \A i \in 1..Len(requests) : requests[i].path # q
         /\ \E r \in { upgrade_pending(NodeAt(ots.timestamp.first_step, q),
                                        calendar[Key(NodeAt(before, q))]) } :
                /\ ots' = [ ots EXCEPT !.timestamp.first_step = ReplaceAt(@, q, r.step) ]
                /\ upgraded' = (upgraded \/ r.upgraded)
                /\ new_timestamp' = r.parsed
                /\ replaced' = IF r.upgraded THEN replaced \cup { q } ELSE replaced
                /\ requests' = Append(requests,
                                      [ uri |-> NodeAt(before, q).data.attest.uri,
                                        commitment |-> NodeAt(before, q).output,
                                        path |-> q,
                                        result |-> r.result ])
                /\ pc' = IF r.result = "panicked" THEN "aborted" ELSE "replacing"
                /\ err' = IF r.result = "panicked" THEN Panic ELSE err
    /\ UNCHANGED << disk, build, calendar, written, readback, todo, before, walks >>
    /\ UNCHANGED << verdict, codecVars, stampVars, saveVars >>

NextReplace ==
    \/ ReplaceAny

SpecReplace == InitReplace /\ [][NextReplace]_vars

----------------------------------------------------------------------------
(* stamp (src/commands/stamp.rs) and CalendarClient::submit_to_calendars    *)
(* (src/calendar.rs).                                                       *)

DEFAULT_CALENDARS ==
    << "https://a.pool.opentimestamps.org", "https://b.pool.opentimestamps.org",
       "https://a.pool.eternitywall.com" >>

NONCE_LEN == 16

\* CalendarClient::submit; http is what the server did with the POST.
submit(calendar_url, http) ==
    IF http.send = "error" THEN Err([ kind |-> "Http", url |-> calendar_url ])
    ELSE IF ~(http.status >= 200 /\ http.status <= 299)
    THEN Err([ kind |-> "Calendar", url |-> calendar_url, status |-> http.status ])
    ELSE Ok(http.body, 0)

\* submit_to_calendars: the list it goes through
urls_or_default(calendar_urls) ==
    IF calendar_urls = << >> THEN DEFAULT_CALENDARS ELSE calendar_urls

Returned(result) == [ returned |-> TRUE, result |-> result, last_error |-> NoError ]
Continue(e) == [ returned |-> FALSE, result |-> NoTimestamp, last_error |-> e ]

\* submit_to_calendars keeping the first error instead of the last
after_submit_first_error(list, i, res, last) ==
    IF res.ok THEN Returned(res)
    ELSE IF i = Len(list)
    THEN Returned(Err(IF last = NoError THEN res.err ELSE last))
    ELSE Continue(IF last = NoError THEN res.err ELSE last)

\* submit_to_calendars: what follows the i-th call of submit, which
\* returned res
after_submit(list, i, res, last) ==
    IF res.ok THEN Returned(res)
    ELSE IF i = Len(list) THEN Returned(Err(res.err))
    ELSE Continue(res.err)

\* build_timestamp with the nonce in front of the file digest
build_timestamp_prepended(file_digest, nonce, calendar_timestamp) ==
    Timestamp(file_digest,
        Step(OpData(OpAppend(nonce)), nonce \o file_digest,
            << Step(OpData(Sha256), execute(Sha256, nonce \o file_digest),
                    << calendar_timestamp.first_step >>) >>))

build_timestamp(file_digest, nonce, calendar_timestamp) ==
    Timestamp(file_digest,
        Step(OpData(OpAppend(nonce)), file_digest \o nonce,
            << Step(OpData(Sha256), execute(Sha256, file_digest \o nonce),
                    << calendar_timestamp.first_step >>) >>))

Stamped(file, bytes) == [ ok |-> TRUE, file |-> file, bytes |-> bytes ]

\* save_ots
save_ots(file) == Stamped(file, to_writer(file).bytes)

\* execute from step 5 on: the response parsed, build the tree, save the file
stamp_finish(file_digest, nonce, result, parsed) ==
    IF ~result.ok THEN result
    ELSE IF ~parsed.ok THEN Err([ kind |-> "InvalidOts" ])
    ELSE save_ots(DetachedTimestampFile("Sha256",
                      build_timestamp(file_digest, nonce, parsed.val)))

StampFiles == { Digest32, HashBytes(77, 32) }
Nonces == { HashBytes(0, NONCE_LEN), HashBytes(200, NONCE_LEN), [ i \in 1..NONCE_LEN |-> 0 ] }
UrlLists ==
    { << >>, << "u1" >>, << "u1", "u2" >>, << "u2", "u1" >>, << "u1", "u1" >>,
      << "u2", "u1", "u3", "u4" >> }

\* What a calendar can do with a POST of the commitment
SubmitOutcomes ==
    { SendError, Response(404, << >>), Response(500, << >>), Response(301, << >>),
      Response(200, << 255, 255 >>), Response(200, << >>),
      Response(200, EncAtt(PendA)),
      Response(201, EncOp(OpPrepend(<< 1, 2 >>), EncOp(Sha256, EncAtt(PendB)))),
      Response(200, EncFork(<< EncOp(Sha256, EncAtt(BtcB)), EncAtt(PendB) >>)) }

InitStamp ==
    /\ FileIdle
    /\ CodecIdle
    /\ StampIdle
    /\ SaveIdle
    /\ build \in { "debug", "release" }

\* execute up to the first call of submit: hash the file, draw the nonce,
\* compute the commitment, enter submit_to_calendars
StampBegin ==
    /\ spc = "idle"
    /\ \E file_digest \in StampFiles, nonce \in Nonces, calendar_urls \in UrlLists :
           /\ stamp' = [ calendar_urls |-> calendar_urls,
                         file_digest |-> file_digest,
                         nonce |-> nonce,
                         commitment |-> execute(Sha256, file_digest \o nonce) ]
           /\ urls' = urls_or_default(calendar_urls)
    /\ spc' = "submitting"
    /\ UNCHANGED << fileVars, verdict, codecVars, saveVars, contacted, last_error, submitted,
                    stamped >>

\* execute cannot read the file: hash_file returns the error
StampUnreadable ==
    /\ spc = "idle"
    /\ stamped' = Err(IoError)
    /\ spc' = "returned"
    /\ UNCHANGED << fileVars, verdict, codecVars, saveVars, stamp, urls, contacted, last_error,
                    submitted >>

\* One call of submit in the loop of submit_to_calendars and what follows it
\* without another request: the next turn of the loop, or the return to
\* execute, which parses, builds and saves.
Submit ==
    /\ spc = "submitting"
    /\ \E http \in SubmitOutcomes :
        \E res \in { submit(urls[Len(contacted) + 1], http) } :
        \E a \in { after_submit(urls, Len(contacted) + 1, res, last_error) } :
        \E parsed \in { IF a.returned /\ a.result.ok
                         THEN parse_calendar_response(stamp.commitment, a.result.val)
                         ELSE NoTimestamp } :
           /\ contacted' = Append(contacted, [ url |-> urls[Len(contacted) + 1],
                                               digest |-> stamp.commitment,
                                               res |-> res ])
           /\ last_error' = IF a.returned THEN last_error ELSE a.last_error
           /\ submitted' = a.result
           /\ stamped' = IF a.returned
                         THEN stamp_finish(stamp.file_digest, stamp.nonce, a.result,
                                           parsed)
                         ELSE stamped
           /\ spc' = IF a.returned THEN "returned" ELSE "submitting"
    /\ UNCHANGED << fileVars, verdict, codecVars, saveVars, stamp, urls >>

NextStamp ==
    \/ StampBegin
    \/ StampUnreadable
    \/ Submit

SpecStamp == InitStamp /\ [][NextStamp]_vars


----------------------------------------------------------------------------
(* Properties *)

first_step == ots.timestamp.first_step
start_digest == ots.timestamp.start_digest

\* The file in memory is the one from_reader returned: no walk has begun.
Untouched == pc \in { "loaded", "written", "done" } /\ walks = << >>

HasKind(step, kind) == \E q \in Paths(step) : NodeAt(step, q).data.kind = kind

\* The attestation leaves of a tree with their outputs, first child first.
RECURSIVE Leaves(_)
RECURSIVE LeavesFrom(_, _)
LeavesFrom(step, i) ==
    IF i > Len(step.next) THEN << >>
    ELSE Leaves(step.next[i]) \o LeavesFrom(step, i + 1)
Leaves(step) ==
    IF step.data.kind = "Attestation" THEN << << step.data.attest, step.output >> >>
    ELSE LeavesFrom(step, 1)

\* C1: for every byte string from_reader accepts, to_writer applied to the
\* decoded file writes exactly that byte string.
C1_WritesWhatItRead ==
    (pc = "written" /\ walks = << >>) => written = disk

\* A file from_reader accepted in another encoding than to_writer's has
\* been written back.
C1_Witness ==
    /\ pc = "written" /\ walks = << >>
    /\ disk \notin CanonicalFiles

\* C2: for every legal tree T, deserialize applied to the bytes of
\* serialize(T) with T's start digest returns a tree equal to T at every node.
C2_TreeRoundTrip ==
    (pc = "done" /\ TreeOk(first_step, start_digest))
        => (readback.ok /\ readback.val.timestamp = ots.timestamp)

\* A legal tree with a Fork as the last child of a Fork has been written and
\* read back.
C2_Witness ==
    /\ pc = "done" /\ TreeOk(first_step, start_digest)
    /\ \E q \in Paths(first_step) :
          /\ NodeAt(first_step, q).data.kind = "Fork"
          /\ NodeAt(first_step, q).next[Len(NodeAt(first_step, q).next)].data.kind = "Fork"

\* Outputs follow the execution rule at every node.
OutputOk(node, input) ==
    IF node.data.kind = "Op" THEN node.output = execute(node.data.op, input)
    ELSE node.output = input

OutputsOk(step, digest) ==
    \A q \in Paths(step) : OutputOk(NodeAt(step, q), InputAt(step, digest, q))

\* C3: in every tree deserialize returns (the file's, a calendar response's),
\* each Op node's output is op.execute(its input), each Fork's and each
\* attestation's output is its input, and a Fork's children get the Fork's
\* input.
C3_DecodedOutputs ==
    /\ Untouched => OutputsOk(first_step, start_digest)
    /\ readback.ok =>
          OutputsOk(readback.val.timestamp.first_step,
                    readback.val.timestamp.start_digest)
    /\ new_timestamp.ok =>
          OutputsOk(new_timestamp.val.first_step, new_timestamp.val.start_digest)

\* A decoded file whose tree has an Op above a Fork above attestations.
C3_Witness ==
    /\ pc = "loaded" /\ walks = << >>
    /\ first_step.data.kind = "Op"
    /\ HasKind(first_step, "Fork")
    /\ \E q \in Paths(first_step) : Len(q) >= 3

\* C4: after an upgrade run that replaced Pending leaves, every node of the
\* tree satisfies the node invariants (Op: one child, output = execute(input);
\* Fork: at least two children, output = input; attestation: output = input).
C4_UpgradeKeepsInvariants ==
    (pc = "walked" /\ replaced # {}) => TreeOk(first_step, start_digest)

\* An upgrade run has replaced a Pending leaf.
C4_Witness == pc = "walked" /\ replaced # {}

\* C5: with a fixed calendar, the upgrade walk run on the result of a first
\* upgrade run leaves the tree unchanged.
C5_Idempotent ==
    Len(walks) >= 2 => walks[2] = walks[1]

\* A walk is under way or has ended.
Walked == pc \in { "walking", "walked" } \/ (pc = "aborted" /\ requests # << >>)

\* The node at path q is the same node as before the walk: data, output
\* and the number of children.
SameNode(q) ==
    /\ NodeAt(first_step, q).data = NodeAt(before, q).data
    /\ NodeAt(first_step, q).output = NodeAt(before, q).output
    /\ Len(NodeAt(first_step, q).next) = Len(NodeAt(before, q).next)

\* C6: a replaced Pending leaf keeps its output; no other node that existed
\* before the walk changes its data, output or children; Bitcoin and Unknown
\* leaves are never modified and never cause a calendar request.
C6_UpgradeFrame ==
    Walked =>
        /\ \A q \in Paths(before) :
              IF q \in replaced
              THEN /\ IsPending(NodeAt(before, q))
                   /\ NodeAt(first_step, q).output = NodeAt(before, q).output
              ELSE SameNode(q)
        /\ \A i \in 1..Len(requests) :
              /\ requests[i].path \in Paths(before)
              /\ IsPending(NodeAt(before, requests[i].path))

\* A walk has ended that replaced one Pending leaf by a subtree and passed a
\* Bitcoin leaf and another Pending leaf.
C6_Witness ==
    /\ pc = "walked" /\ replaced # {}
    /\ \E q \in replaced : Len(NodeAt(first_step, q).next) > 0
    /\ \E q \in Paths(before) :
          /\ NodeAt(before, q).data.kind = "Attestation"
          /\ NodeAt(before, q).data.attest.type = "Bitcoin"
    /\ \E q \in Paths(before) \ replaced : IsPending(NodeAt(before, q))

\* C7: for every calendar outcome at a Pending leaf other than a response
\* that decodes to a tree, the walk returns no error, leaves that leaf as it
\* was and goes on to visit every remaining Pending leaf.
C7_FailuresSkipped ==
    /\ \A i \in 1..Len(requests) :
          requests[i].result # "merged" =>
              /\ pc \in { "walking", "walked", "written", "done" }
              /\ NodeAt(first_step, requests[i].path) = NodeAt(before, requests[i].path)
    /\ (pc = "walked") =>
          \A q \in Paths(before) :
              IsPending(NodeAt(before, q)) =>
                  \E i \in 1..Len(requests) : requests[i].path = q

\* A walk has met a transport error, a 404 and undecodable bytes.
C7_Witness ==
    /\ pc = "walked"
    /\ \E i, j \in 1..Len(requests) :
          /\ requests[i].result = "parse_failed"
          /\ requests[j].result \in { "error", "none" }

StackOverflow == [ kind |-> "StackOverflow" ]

\* The bytes of the tree held in memory, as serialize writes them.
TreeBytes == serialize(ots.timestamp).bytes

ForkArity(step) ==
    \A q \in Paths(step) :
        NodeAt(step, q).data.kind = "Fork" => Len(NodeAt(step, q).next) >= 2

\* C9: every Fork in a tree deserialize returns has at least two children,
\* in the order of their encodings in the byte stream: serializing a decoded
\* tree and decoding it again gives the same tree, and serializing and
\* decoding any tree keeps its leaves in the same order.
C9_ForkChildren ==
    /\ Untouched => ForkArity(first_step)
    /\ new_timestamp.ok => ForkArity(new_timestamp.val.first_step)
    /\ readback.ok => ForkArity(readback.val.timestamp.first_step)
    /\ (pc = "done" /\ walks = << >>) =>
          (readback.ok /\ readback.val.timestamp = ots.timestamp)
    /\ (pc = "done") =>
          (readback.ok /\ Leaves(readback.val.timestamp.first_step) = Leaves(first_step))

\* A decoded tree with a Fork of three different children has been written
\* and read back.
C9_Witness ==
    /\ pc = "done" /\ walks = << >>
    /\ first_step.data.kind = "Fork"
    /\ Len(first_step.next) = 3
    /\ first_step.next[1] # first_step.next[2]
    /\ first_step.next[2] # first_step.next[3]

\* Some proper prefix of the stream is a well-formed proof.
ProofThenBytes(s) ==
    \E k \in 0..(Len(s) - 1) : from_reader(SubSeq(s, 1, k)).ok

\* C10: from_reader fails with TrailingBytes whenever at least one byte
\* follows a well-formed proof, and returns a file only when the stream is
\* fully consumed at the end of the tree.
C10_TrailingBytes ==
    /\ (pc \in { "loaded", "failed" } /\ walks = << >> /\ ProofThenBytes(disk)) =>
          (pc = "failed" /\ err = [ kind |-> "TrailingBytes" ])
    /\ (pc = "loaded" /\ walks = << >>) =>
          /\ from_reader(disk).pos = Len(disk) + 1
          /\ ~ProofThenBytes(disk)

\* from_reader has refused a proof followed by two bytes.
C10_Witness ==
    /\ pc = "failed" /\ err = [ kind |-> "TrailingBytes" ]
    /\ from_reader(SubSeq(disk, 1, Len(disk) - MaxTrailing)).ok

----------------------------------------------------------------------------
(* verify *)

\* The tree was searched: the target file hashed to the start digest.
Searched ==
    /\ pc = "verified"
    /\ verdict.target.kind = "hashed"
    /\ verdict.target.hash = start_digest

\* a comes before b in depth-first order, first child first.
Before(a, b) ==
    \E k \in 1..Len(b) :
        /\ Len(a) >= k - 1
        /\ \A j \in 1..(k - 1) : a[j] = b[j]
        /\ Len(a) = k - 1 \/ a[k] < b[k]

IsBitcoin(node) ==
    node.data.kind = "Attestation" /\ node.data.attest.type = "Bitcoin"

BitcoinLeaves(step) == { q \in Paths(step) : IsBitcoin(NodeAt(step, q)) }

Eligible(step) ==
    { q \in BitcoinLeaves(step) : Len(NodeAt(step, q).output) >= 32 }

\* The first eligible leaf in depth-first order.
Selected(step) ==
    CHOOSE q \in Eligible(step) : \A x \in Eligible(step) : x = q \/ Before(q, x)

Range(seq) == { seq[i] : i \in 1..Len(seq) }

\* C11: verification of a tree succeeds exactly if the first 32 bytes of the
\* selected Bitcoin leaf's output equal the merkle_root the block verifier
\* returns for that leaf's height, fails with Verification if they differ, and
\* fails with NoBitcoinAttestation, with no block-header request, if the tree
\* has no Bitcoin leaf.
C11_VerifyOutcomes ==
    Searched =>
        /\ BitcoinLeaves(first_step) = {} =>
              /\ verdict.result = Err(NoBitcoinAttestation)
              /\ verdict.requested = << >>
        /\ Eligible(first_step) # {} =>
              LET leaf == NodeAt(first_step, Selected(first_step))
                  returned == /\ verdict.header.ok
                              /\ verdict.requested = << leaf.data.attest.height >>
              IN  /\ verdict.result.ok <=>
                        /\ returned
                        /\ verdict.header.val.merkle_root = SubSeq(leaf.output, 1, 32)
                  /\ ( /\ returned
                       /\ verdict.header.val.merkle_root # SubSeq(leaf.output, 1, 32) )
                        => verdict.result = Err(VerificationError)
        /\ \/ verdict.result.ok
           \/ verdict.result.err \in { VerificationError, NoBitcoinAttestation }

C11_Witness ==
    /\ Searched
    /\ verdict.result.ok
    /\ Cardinality(BitcoinLeaves(first_step)) >= 2

\* C12: the search looks at the steps depth-first, first child first, and
\* selects the first Bitcoin leaf in that order whose output has at least 32
\* bytes: a Bitcoin leaf with a shorter output is passed over, the siblings
\* after it are searched, and no step after the selected leaf is looked at.
C12_FirstEligibleLeaf ==
    Searched =>
        LET found == verdict.found
            seen == found.seen
        IN  /\ found.some <=> Eligible(first_step) # {}
            /\ \A i, j \in 1..Len(seen) : i < j => Before(seen[i], seen[j])
            /\ found.some =>
                  /\ seen[Len(seen)] = Selected(first_step)
                  /\ found.merkle_root =
                        SubSeq(NodeAt(first_step, Selected(first_step)).output, 1, 32)
                  /\ Range(seen) =
                        { q \in Paths(first_step) :
                            q = Selected(first_step) \/ Before(q, Selected(first_step)) }
            /\ ~found.some => Range(seen) = Paths(first_step)

C12_Witness ==
    /\ Searched
    /\ verdict.found.some
    /\ \E q \in BitcoinLeaves(first_step) \ Eligible(first_step) :
          Before(q, Selected(first_step))
    /\ \E q \in Eligible(first_step) : Before(Selected(first_step), q)

----------------------------------------------------------------------------
(* from_reader: the order of the checks *)

MagicOk == Len(disk) >= Len(MAGIC) /\ SubSeq(disk, 1, Len(MAGIC)) = MAGIC

\* The version field as read_uint returns it.
VersionRead == read_uint(disk, Len(MAGIC) + 1)

VersionOk == MagicOk /\ VersionRead.ok /\ VersionRead.val = FromNat(VERSION)

TagOk ==
    /\ VersionOk
    /\ VersionRead.pos <= Len(disk)
    /\ disk[VersionRead.pos] \in { 2, 3, 8 }

\* from_reader has returned for the file and nothing ran after it.
Read == pc \in { "loaded", "failed" }

\* C13: from_reader checks magic, version, digest tag and then the rest, and
\* returns the error of the first check that fails: BadMagic with the 31
\* bytes received whatever follows, then BadVersion(v) for a version other
\* than 1, then BadDigestTag(tag) for a tag other than 2, 3 and 8; an error of
\* a later step is returned only if every earlier check passed.
C13_CheckOrder ==
    Read =>
        /\ (Len(disk) >= Len(MAGIC) /\ ~MagicOk) =>
              /\ pc = "failed"
              /\ err = [ kind |-> "BadMagic", got |-> SubSeq(disk, 1, Len(MAGIC)) ]
        /\ (MagicOk /\ VersionRead.ok /\ ~VersionOk) =>
              /\ pc = "failed"
              /\ err = [ kind |-> "BadVersion", val |-> VersionRead.val ]
        /\ (VersionOk /\ VersionRead.pos <= Len(disk) /\ ~TagOk) =>
              /\ pc = "failed"
              /\ err = [ kind |-> "BadDigestTag", tag |-> disk[VersionRead.pos] ]
        /\ (pc = "failed" /\ err.kind = "BadVersion") => MagicOk
        /\ (pc = "failed" /\ err.kind = "BadDigestTag") => VersionOk
        /\ (pc = "failed" /\ err.kind \notin { "Io", "BadMagic", "BadVersion",
                                                "BadDigestTag" }) => TagOk
        /\ pc = "loaded" => TagOk

\* A wrong magic in a file whose version and digest tag are wrong as well.
C13_Witness ==
    /\ pc = "failed"
    /\ err.kind = "BadMagic"
    /\ Len(disk) > Len(MAGIC) + 1
    /\ disk[Len(MAGIC) + 1] = 2
    /\ disk[Len(MAGIC) + 2] = 9

----------------------------------------------------------------------------
(* The codec calls *)

Done(op) == cpc = "done" /\ job.op = op

\* C14: every operation that is serialized and then deserialized comes back
\* as the same operation, and the deserializer has read every byte written.
C14_OpRoundTrip ==
    Done("Op") => out = Ok(job.arg, Len(wire) + 1)

C14_Witness ==
    /\ Done("Op")
    /\ job.arg = OpAppend(<< >>)
    /\ wire = << 240, 0 >>
    /\ ~out.ok

\* C15: a Bitcoin attestation of any height, a Pending attestation with a
\* whitelisted URI of at most 1000 bytes and an Unknown attestation with
\* another tag and any data come back unchanged from serialize then
\* deserialize, with every byte written read.
C15_AttestationRoundTrip ==
    Done("Attestation") => out = Ok(job.arg, Len(wire) + 1)

C15_Witness ==
    /\ Done("Attestation")
    /\ job.arg = Pending(Str(MAX_URI_LEN))
    /\ out.ok

\* The characters a calendar URI may hold: a-z, A-Z, 0-9 and . - _ / :
Whitelist == (97..122) \cup (65..90) \cup (48..57) \cup { 46, 45, 95, 47, 58 }

\* The declared URI length is above 1000
TooLong(u) == (\E b \in u.declared : b >= 10) \/ ToNat(u.declared) > 1000

\* The stream holds the number of URI bytes it declares
Complete(u) == ~TooLong(u) /\ Len(u.raw) = ToNat(u.declared)

\* The URI bytes are the UTF-8 encoding of a string
ValidUtf8(u) == u.raw = as_bytes(u.chars)

FirstOutside(str) ==
    str[CHOOSE k \in 1..Len(str) :
            str[k] \notin Whitelist /\ \A j \in 1..(k - 1) : str[j] \in Whitelist]

\* C16: decoding a Pending attestation succeeds exactly when the declared
\* URI length is at most 1000, the bytes are valid UTF-8 and every character
\* is whitelisted; a longer declared length gives BadLength whatever bytes
\* follow (none need follow), and otherwise the first character outside the
\* whitelist gives InvalidUriChar of that character.
C16_PendingDecode ==
    Done("Pending") =>
        /\ TooLong(job.arg) =>
              out = Err([ kind |-> "BadLength", min |-> 0, max |-> 1000,
                          val |-> job.arg.declared ])
        /\ Complete(job.arg) =>
              /\ out.ok <=> /\ ValidUtf8(job.arg)
                            /\ \A k \in 1..Len(job.arg.chars) :
                                   job.arg.chars[k] \in Whitelist
              /\ out.ok => out = Ok(Pending(job.arg.chars), Len(wire) + 1)
              /\ ValidUtf8(job.arg) /\ ~out.ok =>
                    out = Err([ kind |-> "InvalidUriChar",
                                ch |-> FirstOutside(job.arg.chars) ])

C16_Witness ==
    /\ Done("Pending")
    /\ job.arg = Chars(<< 97, 36, 98, 35 >>)
    /\ out = Err([ kind |-> "InvalidUriChar", ch |-> 36 ])

\* The minimal little-endian base-128 encoding of n: seven bits per byte from
\* the lowest, as many bytes as the highest set bit needs, the high bit set on
\* every byte but the last.
Groups(n) == IF n = {} THEN 1 ELSE ((CHOOSE b \in n : \A c \in n : c <= b) \div 7) + 1
Leb128(n) ==
    [ k \in 1..Groups(n) |->
        ToNat({ j \in 0..6 : (7 * (k - 1)) + j \in n })
        + (IF k < Groups(n) THEN 128 ELSE 0) ]

\* C17: write_uint writes the minimal LEB128 encoding of every machine word
\* (0 as 00, 127 as 7f, 128 as 80 01, 16384 as 80 80 01) and read_uint on
\* those bytes returns the word, having consumed exactly those bytes.
C17_UintRoundTrip ==
    Done("Uint") =>
        /\ wire = Leb128(job.arg)
        /\ out = Ok(job.arg, Len(wire) + 1)
        /\ rpos = Len(wire) + 1
        /\ job.arg = FromNat(0) => wire = << 0 >>
        /\ job.arg = FromNat(127) => wire = << 127 >>
        /\ job.arg = FromNat(128) => wire = << 128, 1 >>
        /\ job.arg = FromNat(16384) => wire = << 128, 128, 1 >>

C17_Witness ==
    /\ Done("Uint")
    /\ job.arg = 0..63
    /\ Len(wire) = 10
    /\ out.ok /\ out.val = 0..63

\* The length a call of read_bytes finds declared is below min or above max
OutOfRange(c) ==
    IF \E b \in c.declared : b > 30 THEN TRUE
    ELSE ToNat(c.declared) < c.min \/ ToNat(c.declared) > c.max

\* The index after the length prefix of a call of read_bytes
AfterLength(c) == Len(write_uint(c.declared)) + 1

\* C18: read_bytes(min, max) fails with BadLength { min, max, val: n } exactly
\* when the declared length n is below min or above max, and then no byte
\* after the length has been consumed; otherwise it returns exactly the next n
\* bytes of the stream.
C18_ReadBytes ==
    Done("Bytes") =>
        /\ (~out.ok /\ out.err.kind = "BadLength") <=> OutOfRange(job.arg)
        /\ OutOfRange(job.arg) =>
              /\ out = Err([ kind |-> "BadLength", min |-> job.arg.min,
                             max |-> job.arg.max, val |-> job.arg.declared ])
              /\ rpos = AfterLength(job.arg)
        /\ ~OutOfRange(job.arg) /\ Len(job.arg.rest) >= ToNat(job.arg.declared) =>
              /\ out = Ok(SubSeq(job.arg.rest, 1, ToNat(job.arg.declared)),
                          AfterLength(job.arg) + ToNat(job.arg.declared))
              /\ rpos = out.pos

C18_Witness ==
    /\ Done("Bytes")
    /\ job.arg.min = 2 /\ job.arg.max = 3
    /\ job.arg.declared = FromNat(4)
    /\ Len(job.arg.rest) = MaxPayload
    /\ ~out.ok /\ out.err.val = FromNat(4)
    /\ rpos = 2

----------------------------------------------------------------------------
(* stamp *)

\* The calendars submit_to_calendars is to try: the list given, or the three
\* default calendars when the list given is empty
ToTry ==
    IF stamp.calendar_urls = << >>
    THEN << "https://a.pool.opentimestamps.org", "https://b.pool.opentimestamps.org",
            "https://a.pool.eternitywall.com" >>
    ELSE stamp.calendar_urls

\* C19: submit_to_calendars contacts the calendars one after the other in
\* list order (the three defaults when the list is empty), returns the first
\* successful response without contacting a later calendar, and returns the
\* last calendar's error when all of them fail.
C19_SubmitToCalendars ==
    spc \in { "submitting", "returned" } /\ stamp # NoStamp =>
        /\ Len(contacted) <= Len(ToTry)
        /\ \A k \in 1..Len(contacted) :
              /\ contacted[k].url = ToTry[k]
              /\ contacted[k].digest = stamp.commitment
              /\ k < Len(contacted) => ~contacted[k].res.ok
        /\ spc = "submitting" =>
              /\ Len(contacted) < Len(ToTry)
              /\ \A k \in 1..Len(contacted) : ~contacted[k].res.ok
        /\ spc = "returned" =>
              /\ contacted # << >>
              /\ submitted = contacted[Len(contacted)].res
              /\ ~submitted.ok => Len(contacted) = Len(ToTry)

C19_Witness ==
    /\ spc = "returned"
    /\ stamp.calendar_urls = << >>
    /\ Len(contacted) = 3
    /\ contacted[1].res.err.kind = "Http"
    /\ contacted[2].res.err.kind = "Calendar"
    /\ submitted = contacted[3].res
    /\ ~submitted.ok /\ submitted.err.url = "https://a.pool.eternitywall.com"

\* The tree of the proof stamp saved
Root == stamped.file.timestamp.first_step

\* C20: the tree stamp builds starts at the file digest; its root is
\* Append(nonce) with output file_digest || nonce; the root's only child is
\* Sha256 with output SHA256(file_digest || nonce), which is the commitment
\* sent to the calendars and the input digest the calendar's subtree was
\* decoded with.
C20_StampTree ==
    spc = "returned" /\ stamped.ok =>
        /\ stamped.file.digest_type = "Sha256"
        /\ stamped.file.timestamp.start_digest = stamp.file_digest
        /\ Root.data = OpData(OpAppend(stamp.nonce))
        /\ Root.output = stamp.file_digest \o stamp.nonce
        /\ Len(Root.output) = 48
        /\ Len(Root.next) = 1
        /\ Root.next[1].data = OpData(Sha256)
        /\ Root.next[1].output = HashModel(2, 32, stamp.file_digest \o stamp.nonce)
        /\ \A k \in 1..Len(contacted) : contacted[k].digest = Root.next[1].output
        /\ Len(Root.next[1].next) = 1
        /\ Root.next[1].next[1] =
              parse_calendar_response(Root.next[1].output, submitted.val).val.first_step
        /\ TreeOk(Root.next[1].next[1], Root.next[1].output)

C20_Witness ==
    /\ spc = "returned" /\ stamped.ok
    /\ Root.next[1].next[1].data = OpData(OpPrepend(<< 1, 2 >>))
    /\ Root.next[1].next[1].output = << 1, 2 >> \o stamp.commitment
    /\ stamp.nonce = HashBytes(200, NONCE_LEN)

----------------------------------------------------------------------------
(* Trees written and read back *)

\* What a Fork with at least one child is written as: 0xff and the child, for
\* every child but the last, then the last child.
RECURSIVE ForkLayout(_, _)
ForkLayout(step, i) ==
    IF i = Len(step.next) THEN serialize_step_recurse(step.next[i]).bytes
    ELSE << 255 >> \o serialize_step_recurse(step.next[i]).bytes
           \o ForkLayout(step, i + 1)

\* The written Forks of a tree: those with a child, in a tree that was
\* written to the end
WrittenForks(step) ==
    { q \in Paths(step) : /\ NodeAt(step, q).data.kind = "Fork"
                          /\ Len(NodeAt(step, q).next) >= 1 }

\* The last child of the Fork the decoder returned, and where its tag is
LastChild == out.val.first_step.next[Len(out.val.first_step.next)]
LastTagAt == out.pos - Len(serialize_step_recurse(LastChild).bytes)

\* C21: a Fork with n children is written as 0xff before each child except
\* the last (n-1 markers); the decoder hands the byte it read in place of a
\* marker to the decode of the final child as its tag, so that the final
\* child is what a decode starting at that byte yields and ends where the
\* Fork ends.
C21_ForkMarkers ==
    Done("Tree") /\ serialize(job.arg).ok =>
        /\ \A q \in WrittenForks(job.arg.first_step) :
              serialize_step_recurse(NodeAt(job.arg.first_step, q)).bytes
                = ForkLayout(NodeAt(job.arg.first_step, q), 1)
        /\ job.arg.first_step.data.kind = "Fork" =>
              /\ wire = ForkLayout(job.arg.first_step, 1)
              /\ out.ok /\ out.pos = Len(wire) + 1
              /\ out.val.first_step.data.kind = "Fork"
                    => /\ wire = ForkLayout(out.val.first_step, 1)
                       /\ wire[LastTagAt] # 255
                       /\ deserialize_step_recurse(wire, LastTagAt,
                              out.val.first_step.output, NoTag, RECURSION_LIMIT - 1)
                            = Ok(LastChild, out.pos)

C21_Witness ==
    /\ Done("Tree")
    /\ job.arg.first_step = Build(F(<< A(PendA), A(BtcB), A(Unk) >>), Digest20)
    /\ out.ok
    /\ Len(out.val.first_step.next) = 3
    /\ Len(SelectSeq(wire, LAMBDA b : b = 255)) = 2

----------------------------------------------------------------------------
(* The upgrade run *)

\* The Pending leaves of the tree as the run found it
PendingBefore == { q \in Paths(before) : IsPending(NodeAt(before, q)) }

\* The run is over: upgrade_step returned to execute, or the process aborted
Ended == pc = "walked" \/ (pc = "aborted" /\ requests # << >>)

\* What request i left at its leaf is what its answer decodes to
Applied(i) ==
    requests[i].result = "merged" =>
        /\ NodeAt(first_step, requests[i].path).data
              = parse_calendar_response(requests[i].commitment, calendar[<< requests[i].uri, requests[i].commitment >>].body).val.first_step.data
        /\ Len(NodeAt(first_step, requests[i].path).next)
              = Len(parse_calendar_response(requests[i].commitment, calendar[<< requests[i].uri, requests[i].commitment >>].body).val.first_step.next)

\* C22: in one upgrade run get_timestamp is requested exactly once for each
\* Pending leaf the tree had when the run started, with the leaf's uri and
\* output, in depth-first order, first child first, every replacement in
\* place before the next request; Pending leaves of fetched subtrees are not
\* requested in that run.
C22_OneRequestPerLeaf ==
    Walked =>
        /\ \A i \in 1..Len(requests) :
              /\ requests[i].path \in PendingBefore
              /\ requests[i].uri = NodeAt(before, requests[i].path).data.attest.uri
              /\ requests[i].commitment = NodeAt(before, requests[i].path).output
              /\ \A j \in 1..(i - 1) : Before(requests[j].path, requests[i].path)
              /\ Applied(i)
        /\ \A q \in PendingBefore :
              (\A i \in 1..Len(requests) : requests[i].path # q) =>
                  /\ ~Ended
                  /\ \A i \in 1..Len(requests) : Before(requests[i].path, q)

C22_Witness ==
    /\ pc = "aborted"
    /\ Len(requests) >= 1
    /\ \E q \in PendingBefore : \A i \in 1..Len(requests) : requests[i].path # q

\* Every Pending leaf of the starting tree has had its turn
AllReplaced ==
    /\ pc = "replacing"
    /\ \A q \in PendingBefore : \E i \in 1..Len(requests) : requests[i].path = q

\* The turns were not taken in tree order
OutOfOrder ==
    \E i, j \in 1..Len(requests) : i < j /\ Before(requests[j].path, requests[i].path)

\* C23: with a fixed calendar answer per leaf, the replacements of the
\* Pending leaves applied one leaf at a time in any order leave the tree that
\* the walk in tree order leaves.
C23_ReplacementsCommute ==
    AllReplaced => first_step = upgrade_in_order(before, calendar)

C23_Witness ==
    /\ AllReplaced
    /\ OutOfOrder
    /\ Cardinality(replaced) >= 2
    /\ \E q \in replaced : Len(NodeAt(first_step, q).next) = 2

\* The calendar's answer for the Pending leaf at q of the starting tree is
\* present and decodes to a tree
Decodes(q) ==
    /\ Key(NodeAt(before, q)) \in DOMAIN calendar
    /\ calendar[Key(NodeAt(before, q))].send = "ok"
    /\ calendar[Key(NodeAt(before, q))].status \in 200..299
    /\ parse_calendar_response(NodeAt(before, q).output,
                               calendar[Key(NodeAt(before, q))].body).ok

\* C24: the upgrade walk returns true exactly when at least one Pending leaf
\* was replaced in the run, its calendar answer being present and decoding
\* to a tree; when it returns false the tree is the tree before the run.
C24_UpgradedFlag ==
    pc = "walked" =>
        /\ upgraded <=> \E q \in PendingBefore : Decodes(q)
        /\ upgraded <=> \E i \in 1..Len(requests) : requests[i].result = "merged"
        /\ ~upgraded => first_step = before

C24_Witness ==
    /\ pc = "walked"
    /\ ~upgraded
    /\ \E i \in 1..Len(requests) : requests[i].result = "parse_failed"
    /\ Len(walks) = 1

\* Where the tag of the mislabelled attestation starts in its file
TagAt(c) ==
    Len(Header20) + (IF c.place = "top" THEN 2
                     ELSE IF c.place = "first" THEN 3
                     ELSE 3 + Len(EncAtt(BtcA)))

Leaf(attest) == Step(AttestationData(attest), Digest20, << >>)

\* C25: an outer length that is not the number of bytes of the payload of a
\* Bitcoin or Pending attestation does not fail the attestation: the payload
\* read decides the value and where the attestation ends, the bytes the
\* outer length counts beyond it are read as what follows, and they end in
\* TrailingBytes where the attestation ends the tree, by the check of
\* from_reader.
C25_OuterLength ==
    \A c \in Mislabels :
        (disk = MislabelFile(c) /\ pc \in { "loaded", "failed" } /\ walks = << >>) =>
            /\ attestation_deserialize(disk, TagAt(c)).ok
            /\ attestation_deserialize(disk, TagAt(c)).val = c.attest
            /\ attestation_deserialize(disk, TagAt(c)).pos = Len(disk) + 1
                    - Len(c.surplus) - (IF c.place = "first" THEN Len(EncAtt(BtcA)) ELSE 0)
            /\ c.place = "top" =>
                  IF c.surplus = << >>
                  THEN pc = "loaded" /\ first_step = Leaf(c.attest)
                  ELSE pc = "failed" /\ err = [ kind |-> "TrailingBytes" ]
            /\ c.place = "last" =>
                  IF c.surplus = << >>
                  THEN pc = "loaded" /\ first_step.next = << Leaf(BtcA), Leaf(c.attest) >>
                  ELSE pc = "failed" /\ err = [ kind |-> "TrailingBytes" ]
            /\ c.place = "first" =>
                  /\ pc = "loaded"
                  /\ first_step.next[1] = Leaf(c.attest)
                  /\ Len(first_step.next) = 2
                  /\ Depth(first_step.next[2]) = 1 + Len(c.surplus)
                  /\ Leaves(first_step.next[2])[1][1] = BtcA

\* from_reader has refused a Bitcoin attestation followed by the two bytes
\* its outer length counted beyond the height.
C25_Witness ==
    /\ \E c \in Mislabels :
          /\ disk = MislabelFile(c)
          /\ c.attest = BtcB /\ c.place = "top" /\ Len(c.surplus) = MaxSurplus
    /\ pc = "failed"
    /\ err = [ kind |-> "TrailingBytes" ]

\* The declared outer length of the stream is above the largest maximum of
\* the format.
AboveMaximum == UGt(job.arg.len, MAX_OP_LENGTH)

\* C26: Attestation::deserialize rejects a declared length above the maximum
\* with BadLength, whatever the tag, and so never returns a payload longer
\* than the maximum.
C26_LengthBounded ==
    (Done("Stream") /\ AboveMaximum) =>
        /\ ~out.ok
        /\ out.err.kind = "BadLength"

\* An attestation with another tag that declares 4097 bytes is accepted with
\* its 4097 bytes.
C26_Witness ==
    /\ Done("Stream") /\ AboveMaximum
    /\ job.arg.tag = OtherTag
    /\ out.ok
    /\ Len(out.val.data) = MAX_OP_LENGTH + 1

\* The proof file is written in this step / the backup is written in this step
ProofWritten == disk' # disk
BackupWritten == bak' # bak

\* C27: the upgrade command writes the proof file only after a walk that
\* returned true and without dry_run, and then a file exists at <file>.bak
\* before the first write; a file that exists at <file>.bak is never
\* written; after a walk that returned false, with dry_run, and after a
\* failed read neither file is written.
C27_SaveAndBackup ==
    [][ /\ ProofWritten =>
            /\ upgraded /\ ~dry_run
            /\ Len(walks) = 1
            /\ pc \in { "backed_up", "created" }
            /\ bak.exists
        /\ bak.exists => ~BackupWritten
        /\ (~upgraded \/ dry_run \/ pc \in { "start", "failed", "aborted", "returned" }) =>
              (~ProofWritten /\ ~BackupWritten)
        /\ BackupWritten => bak'.bytes \in { disk, << >> } ]_vars

\* The command has saved an upgraded proof after copying the old one to
\* <file>.bak.
C27_Witness ==
    /\ pc = "saved"
    /\ bak.exists /\ from_reader(bak.bytes).ok
    /\ bak.bytes # disk
    /\ from_reader(disk).ok
    /\ from_reader(disk).val = ots
    /\ bak.bytes \in SaveFiles

\* C28: Timestamp::serialize never aborts, whatever the tree: not for a Fork
\* with no child or one child, not for an Op without a child.
C28_SerializeNeverAborts ==
    Done("Tree") => out # Err(Panic)

\* serialize has aborted on a Fork without children after writing its first
\* 0xff (no overflow checks).
C28_Witness ==
    /\ Done("Tree")
    /\ out = Err(Panic)
    /\ job.arg.first_step.data.kind = "Fork"
    /\ job.arg.first_step.next = << >>
    /\ build = "release"
    /\ wire = write_byte(255)

\* The tree of the call satisfies the node invariants.
Invariants == TreeOk(job.arg.first_step, job.arg.start_digest)

\* Some Fork of the tree is the last child of a Fork.
ForkLast(step) ==
    \E q \in Paths(step) :
        /\ NodeAt(step, q).data.kind = "Fork"
        /\ NodeAt(step, q).next[Len(NodeAt(step, q).next)].data.kind = "Fork"

C30_HeightUnchanged ==
    (Searched /\ Eligible(first_step) # {}) =>
        verdict.requested
          = << NodeAt(first_step, Selected(first_step)).data.attest.height >>

\* The attestation says height 2^32 + 1 and the header of block 1 was
\* requested.
C30_Witness ==
    /\ Searched
    /\ Eligible(first_step) # {}
    /\ NodeAt(first_step, Selected(first_step)).data.attest = BtcHigh
    /\ verdict.requested = << FromNat(1) >>

====
